---- MODULE Spec2Model ----
(***************************************************************************)
(* cifmt: the streaming parsers (CargoCheck, CargoLibtest), tool           *)
(* detection, and the `format` command that shuttles stdin into the        *)
(* chosen tool and writes the rendered messages.                           *)
(*                                                                         *)
(* The byte stream is modelled over a small alphabet.  Symbols below 256   *)
(* are the bytes themselves.  The symbols above 255 each stand for a       *)
(* fixed run of bytes (the remainder of a JSON record after its opening    *)
(* brace) that the bounded streams never split; Expand gives their bytes.  *)
(* Carriage returns are not in the alphabet.                               *)
(***************************************************************************)
EXTENDS Integers, Sequences, FiniteSets, TLC

VARIABLES
    toolName,    \* which tool is bound: Tool::name(), or "none"
    toolBuffer,  \* the tool's `buffer: Vec<u8>`
    fed,         \* history: concatenation of every buf passed to parse
    results,     \* history: concatenation of every vector parse returned
    splits,      \* history: parse calls that began inside a line (saturating)
    pc,          \* position of the format command ("library": no command)
    githubEnv,   \* GITHUB_ACTIONS in the environment: unset, or the kind of its value
    argsDetect,  \* Args::detect
    argsTool,    \* Args::tool ("none" when absent)
    platform,    \* the platform P the command runs with
    buffer,      \* the command's read buffer
    consumed,    \* history: every byte read from stdin so far
    out          \* the writer: one entry per writeln!

vars == << toolName, toolBuffer, fed, results, splits, pc, githubEnv, argsDetect,
           argsTool, platform, buffer, consumed, out >>

----------------------------------------------------------------------------
(* Bounds *)

MaxFed == 5      \* bytes fed to a tool driven directly
MaxChunk == 3    \* bytes in one parse call
MaxStdin == 4    \* bytes the format command reads from stdin
MaxSplits == 1   \* where the count of calls begun inside a line saturates
MaxPieces == 6   \* records, braces and newlines given to a tool through DynTool
MaxCargoMessages == 1  \* cargo messages rendered in one run
MaxEvents == 3   \* libtest messages rendered in one run
MaxSuiteEvents == 1 \* how far into a run a suite result or discovery event comes
MaxRecords == 1  \* wire records deserialized in one run
MaxLines == 511  \* lines of a sample folded by CargoCheck::detect
MaxCommands == 1 \* workflow commands built in one run

----------------------------------------------------------------------------
(* The alphabet *)

NL == 10             \* b'\n'
SP == 32             \* b' ', JSON whitespace
LBRACE == 123        \* b'{'
TEXT == 120          \* b'x', a byte of human-readable output
BAD == 255           \* 0xFF, a byte that is not valid UTF-8
CARGO_REST == 256    \* "reason":"build-finished","success":true}
LIBTEST_REST == 257  \* "type":"suite","event":"started","test_count":1}
CARGO_FAILED_REST == 258  \* "reason":"build-finished","success":false}

Alphabet == {NL, SP, LBRACE, TEXT, BAD, CARGO_REST, LIBTEST_REST}

CargoRestBytes ==
    << 34, 114, 101, 97, 115, 111, 110, 34, 58, 34, 98, 117,
       105, 108, 100, 45, 102, 105, 110, 105, 115, 104, 101, 100,
       34, 44, 34, 115, 117, 99, 99, 101, 115, 115, 34, 58,
       116, 114, 117, 101, 125 >>

LibtestRestBytes ==
    << 34, 116, 121, 112, 101, 34, 58, 34, 115, 117, 105, 116,
       101, 34, 44, 34, 101, 118, 101, 110, 116, 34, 58, 34,
       115, 116, 97, 114, 116, 101, 100, 34, 44, 34, 116, 101,
       115, 116, 95, 99, 111, 117, 110, 116, 34, 58, 49, 125 >>

CargoFailedRestBytes ==
    SubSeq(CargoRestBytes, 1, 36) \o << 102, 97, 108, 115, 101, 125 >>

Expand(b) ==
    IF b = CARGO_REST THEN CargoRestBytes
    ELSE IF b = CARGO_FAILED_REST THEN CargoFailedRestBytes
    ELSE IF b = LIBTEST_REST THEN LibtestRestBytes
    ELSE << b >>

RECURSIVE ExpandAll(_)
ExpandAll(s) ==
    IF s = << >> THEN << >> ELSE Expand(Head(s)) \o ExpandAll(Tail(s))

Min(a, b) == IF a < b THEN a ELSE b

----------------------------------------------------------------------------
(* Messages and deserialization *)

BuildFinished(success) == [kind |-> "BuildFinished", success |-> success]
BuildFinishedTrue == BuildFinished(TRUE)
SuiteStarted == [kind |-> "Suite", event |-> "Started", test_count |-> 1]
\* the msg field of a result that holds no message
NoMessage == [kind |-> "none"]

Ok(m) == [ok |-> TRUE, msg |-> m, err |-> << >>]
\* serde_json::Error is a function of the line it was raised on; the model
\* carries the line itself.
Err(line) == [ok |-> FALSE, msg |-> NoMessage, err |-> line]

\* JSON whitespace between tokens is insignificant, before, inside and
\* after the record.
SkipWhitespace(line) == SelectSeq(line, LAMBDA b : b # SP)

\* serde_json::from_slice::<CargoMessage>: the record must carry the
\* "reason" tag of a known variant and its required fields.
CargoMessageFromSlice(line) ==
    IF SkipWhitespace(line) = << LBRACE, CARGO_REST >>
    THEN Ok(BuildFinishedTrue)
    ELSE IF SkipWhitespace(line) = << LBRACE, CARGO_FAILED_REST >>
    THEN Ok(BuildFinished(FALSE))
    ELSE Err(line)

\* serde_json::from_slice::<LibTestMessage>: tag "type".
LibTestMessageFromSlice(line) ==
    IF SkipWhitespace(line) = << LBRACE, LIBTEST_REST >>
    THEN Ok(SuiteStarted)
    ELSE Err(line)

----------------------------------------------------------------------------
(* Tool::parse *)

HasNewline(s) == \E i \in 1..Len(s) : s[i] = NL

\* self.buffer.iter().position(|&b| b == b'\n'), 1-based
NewlinePos(s) ==
    CHOOSE i \in 1..Len(s) : s[i] = NL /\ \A j \in 1..(i - 1) : s[j] # NL

\* CargoCheck::parse, the body of the loop after the line is extracted
CargoCheckLine_ErrAlways(line) ==
    IF line = << >> THEN << >>
    ELSE << CargoMessageFromSlice(line) >>

CargoCheckLine_BraceFirst(line) ==
    IF line = << >> THEN << >>
    ELSE IF Head(line) # LBRACE THEN << >>
    ELSE << CargoMessageFromSlice(line) >>

CargoCheckLine(line) ==
    IF line = << >> THEN << >>
    ELSE LET r == CargoMessageFromSlice(line) IN
         IF r.ok THEN << r >>
         ELSE IF Head(line) = LBRACE THEN << r >>
         ELSE << >>

RECURSIVE CargoCheckLoop(_, _)
CargoCheckLoop(buf, res) ==
    IF ~HasNewline(buf) THEN [buffer |-> buf, results |-> res]
    ELSE LET pos == NewlinePos(buf)
             line == SubSeq(buf, 1, pos - 1)
             rest == SubSeq(buf, pos + 1, Len(buf))
         IN  CargoCheckLoop(rest, res \o CargoCheckLine(line))

\* the loop leaves at the first error
RECURSIVE CargoCheckLoop_AbortOnErr(_, _)
CargoCheckLoop_AbortOnErr(buf, res) ==
    IF ~HasNewline(buf) THEN [buffer |-> buf, results |-> res]
    ELSE LET pos == NewlinePos(buf)
             line == SubSeq(buf, 1, pos - 1)
             rest == SubSeq(buf, pos + 1, Len(buf))
             r == CargoCheckLine(line)
         IN  IF r # << >> /\ ~r[1].ok
             THEN [buffer |-> rest, results |-> res \o r]
             ELSE CargoCheckLoop_AbortOnErr(rest, res \o r)

\* `if let` in place of `while let`: one line per call
CargoCheckOnce(buf) ==
    IF ~HasNewline(buf) THEN [buffer |-> buf, results |-> << >>]
    ELSE LET pos == NewlinePos(buf)
         IN  [buffer |-> SubSeq(buf, pos + 1, Len(buf)),
              results |-> CargoCheckLine(SubSeq(buf, 1, pos - 1))]

CargoCheckParse_DropBuffer(selfBuffer, buf) == CargoCheckLoop(buf, << >>)

CargoCheckParse_ClearBuffer(selfBuffer, buf) ==
    [buffer |-> << >>,
     results |-> CargoCheckLoop(selfBuffer \o buf, << >>).results]

CargoCheckParse_OneLine(selfBuffer, buf) == CargoCheckOnce(selfBuffer \o buf)

CargoCheckParse_AbortOnErr(selfBuffer, buf) ==
    CargoCheckLoop_AbortOnErr(selfBuffer \o buf, << >>)

CargoCheckParse_FlushFragment(selfBuffer, buf) ==
    LET r == CargoCheckLoop(selfBuffer \o buf, << >>)
    IN  [buffer |-> << >>, results |-> r.results \o CargoCheckLine(r.buffer)]

CargoCheckParse(selfBuffer, buf) == CargoCheckLoop(selfBuffer \o buf, << >>)

\* CargoLibtest::parse
CargoLibtestLine(line) ==
    IF line = << >> THEN << >>
    ELSE LET r == LibTestMessageFromSlice(line) IN
         IF r.ok THEN << r >>
         ELSE IF Head(line) = LBRACE THEN << r >>
         ELSE << >>

RECURSIVE CargoLibtestLoop(_, _)
CargoLibtestLoop(buf, res) ==
    IF ~HasNewline(buf) THEN [buffer |-> buf, results |-> res]
    ELSE LET pos == NewlinePos(buf)
             drained == SubSeq(buf, 1, pos)
             line == SubSeq(drained, 1, Len(drained) - 1)
             rest == SubSeq(buf, pos + 1, Len(buf))
         IN  CargoLibtestLoop(rest, res \o CargoLibtestLine(line))

CargoLibtestParse(selfBuffer, buf) == CargoLibtestLoop(selfBuffer \o buf, << >>)

\* Tool::parse through the trait
ToolParse(name, selfBuffer, buf) ==
    IF name = "cargo-check" THEN CargoCheckParse(selfBuffer, buf)
    ELSE CargoLibtestParse(selfBuffer, buf)

----------------------------------------------------------------------------
(* A tool driven directly by a caller *)

ToolNames == {"cargo-check", "cargo-libtest"}

\* The bytes a caller feeds a tool: newlines, whitespace, braces, text and
\* the records of that tool.
ChunkAlphabet(name) ==
    {NL, SP, LBRACE, TEXT} \cup
        (IF name = "cargo-check" THEN {CARGO_REST} ELSE {LIBTEST_REST})

Init ==
    /\ toolName \in ToolNames
    /\ toolBuffer = << >>
    /\ fed = << >>
    /\ results = << >>
    /\ splits = 0
    /\ pc = "library"
    /\ githubEnv = "unset"
    /\ argsDetect = FALSE
    /\ argsTool = "none"
    /\ platform = "none"
    /\ buffer = << >>
    /\ consumed = << >>
    /\ out = << >>

commandVars == << pc, githubEnv, argsDetect, argsTool, platform, buffer,
                  consumed, out >>

\* the chunks a caller may pass when `room` more bytes fit the bound
Chunks(A, room) == UNION { [1..k -> A] : k \in 0..Min(MaxChunk, room) }

ParseCall(name, buf) ==
    /\ LET r == ToolParse(name, toolBuffer, buf) IN
         /\ toolBuffer' = r.buffer
         /\ results' = results \o r.results
    /\ fed' = fed \o buf
    /\ splits' = IF toolBuffer # << >> THEN Min(splits + 1, MaxSplits) ELSE splits
    /\ UNCHANGED << toolName, commandVars >>

CargoCheckParseCall ==
    /\ pc = "library"
    /\ toolName = "cargo-check"
    /\ \E buf \in Chunks(ChunkAlphabet("cargo-check"), MaxFed - Len(fed)) :
          ParseCall("cargo-check", buf)

CargoLibtestParseCall ==
    /\ pc = "library"
    /\ toolName = "cargo-libtest"
    /\ \E buf \in Chunks(ChunkAlphabet("cargo-libtest"), MaxFed - Len(fed)) :
          ParseCall("cargo-libtest", buf)

Next == CargoCheckParseCall \/ CargoLibtestParseCall

Spec == Init /\ [][Next]_vars

----------------------------------------------------------------------------
(* Detection *)

U8_MAX == 255      \* the counters of CargoCheck::detect are u8
WINDOW_LEN == 8    \* sample.windows(8) in CargoLibtest::detect

\* b"\"type\":"
TypePattern == << 34, 116, 121, 112, 101, 34, 58 >>

\* <&[u8] as BufRead>::lines(): the sample cut after each newline, the
\* newline dropped; bytes after the last newline form a last line.
RECURSIVE BufReadLines(_)
BufReadLines(s) ==
    IF s = << >> THEN << >>
    ELSE IF ~HasNewline(s) THEN << s >>
    ELSE LET pos == NewlinePos(s)
         IN  << SubSeq(s, 1, pos - 1) >> \o BufReadLines(SubSeq(s, pos + 1, Len(s)))

\* a line is yielded as Ok(String) only when it is valid UTF-8
ValidUtf8(line) == \A i \in 1..Len(line) : line[i] # BAD

\* .map_while(Result::ok): the lines before the first one that is an Err
RECURSIVE MapWhileOk(_)
MapWhileOk(lines) ==
    IF lines = << >> \/ ~ValidUtf8(Head(lines)) THEN << >>
    ELSE << Head(lines) >> \o MapWhileOk(Tail(lines))

SaturatingAdd(x) == IF x + 1 > U8_MAX THEN U8_MAX ELSE x + 1

RECURSIVE DetectFold(_, _, _)
DetectFold(lines, oks, errs) ==
    IF lines = << >> THEN [oks |-> oks, errs |-> errs]
    ELSE IF CargoMessageFromSlice(Head(lines)).ok
         THEN DetectFold(Tail(lines), SaturatingAdd(oks), errs)
         ELSE DetectFold(Tail(lines), oks, SaturatingAdd(errs))

\* CargoCheck::detect
CargoCheckDetect(sample) ==
    LET c == DetectFold(MapWhileOk(BufReadLines(sample)), 0, 0)
    IN  c.oks > c.errs

\* CargoLibtest::detect
CargoLibtestDetect(sample) ==
    LET bytes == ExpandAll(sample)
    IN  \E i \in 1..(Len(bytes) - WINDOW_LEN + 1) :
            SubSeq(bytes, i, i + WINDOW_LEN - 1) = TypePattern

\* a detection that falls back to the first tool when none detects
ToolDetect_Default(sample) ==
    IF CargoCheckDetect(sample) THEN "cargo-check"
    ELSE IF CargoLibtestDetect(sample) THEN "cargo-libtest"
    ELSE "cargo-check"

\* tool::detect: the name of the tool detected, "none" for NoToolDetected
ToolDetect(sample) ==
    IF CargoCheckDetect(sample) THEN "cargo-check"
    ELSE IF CargoLibtestDetect(sample) THEN "cargo-libtest"
    ELSE "none"

----------------------------------------------------------------------------
(* Rendering and dispatch *)

\* Option<T>
None == << >>
Some(v) == << v >>

\* what the variable GITHUB_ACTIONS can be in the environment of the process
EnvValues == {"unset", "unicode", "not-unicode"}

\* std::env::var(..).is_ok(): the variable is set and its value is Unicode
EnvVarIsOk(v) == v = "unicode"

\* GitHub::from_env().is_some()
GitHubFromEnv(v) == EnvVarIsOk(v)

\* a string is a sequence of tokens: the literal pieces of the format strings
\* and the values put between them
NoParams ==
    [file |-> None, line |-> None, col |-> None,
     end_line |-> None, end_column |-> None, title |-> None]

\* a comma is written before every field, the first one included
RECURSIVE WriteParams_CommaFirst(_, _)
WriteParams_CommaFirst(fs, needs_separator) ==
    IF fs = << >> THEN << >>
    ELSE LET f == Head(fs) IN
         IF f.value = None
         THEN WriteParams_CommaFirst(Tail(fs), needs_separator)
         ELSE << ",", f.key >> \o f.value[1]
                \o WriteParams_CommaFirst(Tail(fs), TRUE)

\* write_param! over the six fields in their order; fs holds for each field
\* its "key=" and, when the field is Some, the text of its value
RECURSIVE WriteParams(_, _)
WriteParams(fs, needs_separator) ==
    IF fs = << >> THEN << >>
    ELSE LET f == Head(fs) IN
         IF f.value = None
         THEN WriteParams(Tail(fs), needs_separator)
         ELSE (IF needs_separator THEN << "," >> ELSE << >>)
                \o << f.key >> \o f.value[1]
                \o WriteParams(Tail(fs), TRUE)

Number(opt) == IF opt = None THEN None ELSE Some(<< ToString(opt[1]) >>)
Text(opt) == IF opt = None THEN None ELSE Some(<< opt[1] >>)

\* impl Display for AnnotationParams; a title is given as its tokens
AnnotationParamsDisplay(p) ==
    WriteParams(<< [key |-> "file=", value |-> Text(p.file)],
                   [key |-> "line=", value |-> Number(p.line)],
                   [key |-> "col=", value |-> Number(p.col)],
                   [key |-> "endLine=", value |-> Number(p.end_line)],
                   [key |-> "endColumn=", value |-> Number(p.end_column)],
                   [key |-> "title=", value |-> p.title] >>,
                FALSE)

GitHubDebug(message) == << "::debug", "::" >> \o message \o << "\n" >>
\* the space is written only before parameters that are present
GitHubNotice_SpaceWithParams(message, p) ==
    << "::notice" >>
      \o (IF AnnotationParamsDisplay(p) = << >> THEN << >> ELSE << " " >>)
      \o AnnotationParamsDisplay(p) \o << "::" >> \o message \o << "\n" >>

GitHubNotice(message, p) ==
    << "::notice", " " >> \o AnnotationParamsDisplay(p) \o << "::" >>
        \o message \o << "\n" >>
GitHubWarning(message, p) ==
    << "::warning", " " >> \o AnnotationParamsDisplay(p) \o << "::" >>
        \o message \o << "\n" >>
GitHubError(message, p) ==
    << "::error", " " >> \o AnnotationParamsDisplay(p) \o << "::" >>
        \o message \o << "\n" >>
GitHubGroup(title) == << "::group", "::" >> \o title \o << "\n" >>
GitHubEndgroup == << "::endgroup", "::", "\n" >>
GitHubAddMask(value) == << "::add-mask", "::" >> \o value \o << "\n" >>
GitHubStopCommands(token) == << "::stop-commands", "::" >> \o token \o << "\n" >>
GitHubResumeCommands(token) == << "::" >> \o token \o << "::", "\n" >>
GitHubEcho(enable) == << "::echo", "::", IF enable THEN "on" ELSE "off", "\n" >>

\* impl CiMessage<Plain> and CiMessage<GitHub> for BuildFinished
BuildFinishedFormat(p, m) ==
    IF p = "GitHub"
    THEN IF m.success
         THEN GitHubNotice(<< "Build finished successfully" >>,
                           [NoParams EXCEPT !.title = Some(<< "Build Complete" >>)])
         ELSE GitHubError(<< "Build failed" >>,
                          [NoParams EXCEPT !.title = Some(<< "Build Failed" >>)])
    ELSE IF m.success
         THEN << "Build finished successfully" >>
         ELSE << "Build failed" >>

----------------------------------------------------------------------------
(* Diagnostics *)

DiagnosticLevels ==
    {"Error", "Warning", "Note", "Help", "FailureNote", "InternalCompilerError"}

\* impl Display for DiagnosticLevel
LevelDisplay(level) ==
    CASE level = "Error" -> "error"
      [] level = "Warning" -> "warning"
      [] level = "Note" -> "note"
      [] level = "Help" -> "help"
      [] level = "FailureNote" -> "failure-note"
      [] level = "InternalCompilerError" -> "error: internal compiler error"

DiagnosticSpan(file_name, line_start, column_start, line_end, column_end, is_primary) ==
    [file_name |-> file_name, line_start |-> line_start,
     column_start |-> column_start, line_end |-> line_end,
     column_end |-> column_end, is_primary |-> is_primary]

Diagnostic(message, code, level, spans, children) ==
    [kind |-> "Diagnostic", message |-> message, code |-> code,
     level |-> level, spans |-> spans, children |-> children]

CompilerMessage(diagnostic) ==
    [kind |-> "CompilerMessage", message |-> diagnostic]

\* a primary span is chosen whatever its flag: the first span of the list
PrimarySpan_FirstSpan(spans) ==
    IF spans = << >> THEN None ELSE Some(spans[1])

\* self.spans.iter().find(|s| s.is_primary)
PrimarySpan(spans) ==
    LET primary == SelectSeq(spans, LAMBDA sp : sp.is_primary)
    IN  IF primary = << >> THEN None ELSE Some(primary[1])

\* the title of an error or a warning
DiagnosticTitle(d) ==
    IF d.code # None
    THEN << LevelDisplay(d.level), ": ", d.code[1] >>
    ELSE << LevelDisplay(d.level) >>

\* the parameters of an error or a warning: the whole span and the title
SpanParams(primary_span, title) ==
    IF primary_span # None
    THEN [file |-> Some(primary_span[1].file_name),
          line |-> Some(primary_span[1].line_start),
          col |-> Some(primary_span[1].column_start),
          end_line |-> Some(primary_span[1].line_end),
          end_column |-> Some(primary_span[1].column_end),
          title |-> Some(title)]
    ELSE [NoParams EXCEPT !.title = Some(title)]

\* the parameters of a notice: the start of the span and the title
StartParams(primary_span, title) ==
    IF primary_span # None
    THEN [NoParams EXCEPT !.file = Some(primary_span[1].file_name),
                          !.line = Some(primary_span[1].line_start),
                          !.col = Some(primary_span[1].column_start),
                          !.title = Some(title)]
    ELSE [NoParams EXCEPT !.title = Some(title)]

\* every diagnostic is announced as an error
GitHubAnnotation_AllErrors(d) ==
    GitHubError(<< d.message >>, SpanParams(PrimarySpan(d.spans), DiagnosticTitle(d)))

\* impl CiMessage<GitHub> for Diagnostic: the annotation of the diagnostic
GitHubAnnotation(d) ==
    LET primary_span == PrimarySpan(d.spans) IN
    CASE d.level \in {"Error", "InternalCompilerError"} ->
           GitHubError(<< d.message >>, SpanParams(primary_span, DiagnosticTitle(d)))
      [] d.level = "Warning" ->
           GitHubWarning(<< d.message >>, SpanParams(primary_span, DiagnosticTitle(d)))
      [] d.level \in {"Note", "Help", "FailureNote"} ->
           GitHubNotice(<< d.message >>,
                        StartParams(primary_span, << LevelDisplay(d.level) >>))

\* the suffix is written only when the diagnostic has a code
PlainAnnotation_SuffixOnlyWithCode(d) ==
    CASE d.level \in {"Error", "InternalCompilerError"} ->
           << "error: ", d.message >>
             \o (IF d.code # None
                 THEN << " (" >> \o DiagnosticTitle(d) \o << ")" >> ELSE << >>)
             \o << "\n" >>
      [] d.level = "Warning" ->
           << "warning: ", d.message >>
             \o (IF d.code # None
                 THEN << " (" >> \o DiagnosticTitle(d) \o << ")" >> ELSE << >>)
             \o << "\n" >>
      [] d.level \in {"Note", "Help", "FailureNote"} ->
           << LevelDisplay(d.level), ": ", d.message, "\n" >>

\* impl CiMessage<Plain> for Diagnostic: the line of the diagnostic
PlainAnnotation(d) ==
    CASE d.level \in {"Error", "InternalCompilerError"} ->
           << "error: ", d.message, " (" >> \o DiagnosticTitle(d) \o << ")", "\n" >>
      [] d.level = "Warning" ->
           << "warning: ", d.message, " (" >> \o DiagnosticTitle(d) \o << ")", "\n" >>
      [] d.level \in {"Note", "Help", "FailureNote"} ->
           << LevelDisplay(d.level), ": ", d.message, "\n" >>

\* the children are written before the diagnostic
RECURSIVE DiagnosticFormat_ChildrenFirst(_, _)
DiagnosticFormat_ChildrenFirst(p, d) ==
    LET RECURSIVE Children(_)
        Children(i) ==
            IF i > Len(d.children) THEN << >>
            ELSE DiagnosticFormat_ChildrenFirst(p, d.children[i]) \o Children(i + 1)
    IN  Children(1)
          \o (IF p = "GitHub" THEN GitHubAnnotation(d) ELSE PlainAnnotation(d))

\* CiMessage<P>::format for Diagnostic: the annotation, then each child
RECURSIVE DiagnosticFormat(_, _)
DiagnosticFormat(p, d) ==
    LET RECURSIVE Children(_)
        Children(i) ==
            IF i > Len(d.children) THEN << >>
            ELSE DiagnosticFormat(p, d.children[i]) \o Children(i + 1)
    IN  (IF p = "GitHub" THEN GitHubAnnotation(d) ELSE PlainAnnotation(d))
          \o Children(1)

\* impl CiMessage<Plain> and CiMessage<GitHub> for SuiteMessage
\* format!("{t:.2}") of a time the model holds in milliseconds: the seconds
\* rounded to hundredths, two digits after the point
Fixed2(ms) ==
    LET h == (ms + 5) \div 10
    IN  << ToString(h \div 100), ".", ToString((h % 100) \div 10),
           ToString(h % 10) >>

\* the time is written as if it were absent when it is zero
TimeInfo_ZeroAsAbsent(exec_time) ==
    IF exec_time = None \/ exec_time = Some(0) THEN << >>
    ELSE << " in " >> \o Fixed2(exec_time[1]) \o << "s" >>

\* exec_time.map(|t| format!(" in {:.2}s", t)).unwrap_or_default()
TimeInfo(exec_time) ==
    IF exec_time = None THEN << >>
    ELSE << " in " >> \o Fixed2(exec_time[1]) \o << "s" >>

SuiteDiscovery == [kind |-> "Suite", event |-> "Discovery"]
SuiteCompleted(tests, benchmarks, total, ignored) == [kind |-> "Suite", event |-> "Completed", tests |-> tests, benchmarks |-> benchmarks, total |-> total, ignored |-> ignored]
SuiteOk(passed, failed, ignored, measured, filtered_out, exec_time) == [kind |-> "Suite", event |-> "Ok", passed |-> passed, failed |-> failed, ignored |-> ignored, measured |-> measured, filtered_out |-> filtered_out, exec_time |-> exec_time]
SuiteFailed(passed, failed, ignored, measured, filtered_out, exec_time) == [kind |-> "Suite", event |-> "Failed", passed |-> passed, failed |-> failed, ignored |-> ignored, measured |-> measured, filtered_out |-> filtered_out, exec_time |-> exec_time]

\* impl CiMessage<Plain> for SuiteMessage
SuiteMessagePlain(m) ==
    CASE m.event = "Discovery" -> << "SUITE: Test Discovery Started" >>
      [] m.event = "Completed" ->
           << "SUITE: Test Discovery Completed - Discovered ", ToString(m.total),
              " items: ", ToString(m.tests), " tests, ", ToString(m.benchmarks),
              " benchmarks, ", ToString(m.ignored), " ignored" >>
      [] m.event = "Started" ->
           << "SUITE: Test Suite Started - Running ", ToString(m.test_count),
              " tests" >>
      [] m.event = "Failed" ->
           << "SUITE: Test Suite Failed - ", ToString(m.failed), " failed, ",
              ToString(m.passed), " passed, ", ToString(m.ignored), " ignored, ",
              ToString(m.measured), " measured, ", ToString(m.filtered_out),
              " filtered out" >> \o TimeInfo(m.exec_time)
      [] m.event = "Ok" ->
           << "SUITE: Test Suite Passed - ", ToString(m.passed), " passed, ",
              ToString(m.failed), " failed, ", ToString(m.ignored), " ignored, ",
              ToString(m.measured), " measured, ", ToString(m.filtered_out),
              " filtered out" >> \o TimeInfo(m.exec_time)

\* impl CiMessage<GitHub> for SuiteMessage
SuiteMessageGitHub(m) ==
    CASE m.event = "Discovery" -> GitHubGroup(<< "Test Discovery" >>)
      [] m.event = "Completed" ->
           GitHubEndgroup
             \o GitHubNotice(<< "Discovered ", ToString(m.total), " items: ",
                                ToString(m.tests), " tests, ",
                                ToString(m.benchmarks), " benchmarks, ",
                                ToString(m.ignored), " ignored" >>,
                             [NoParams EXCEPT !.title = Some(<< "Test Discovery" >>)])
      [] m.event = "Started" ->
           GitHubNotice(<< "Running ", ToString(m.test_count), " tests" >>,
                        [NoParams EXCEPT !.title = Some(<< "Test Suite Started" >>)])
      [] m.event = "Failed" ->
           GitHubError(<< ToString(m.failed), " failed, ", ToString(m.passed),
                          " passed, ", ToString(m.ignored), " ignored, ",
                          ToString(m.measured), " measured, ",
                          ToString(m.filtered_out), " filtered out" >>
                         \o TimeInfo(m.exec_time),
                       [NoParams EXCEPT !.title = Some(<< "Test Suite Failed" >>)])
      [] m.event = "Ok" ->
           GitHubNotice(<< ToString(m.passed), " passed, ", ToString(m.failed),
                           " failed, ", ToString(m.ignored), " ignored, ",
                           ToString(m.measured), " measured, ",
                           ToString(m.filtered_out), " filtered out" >>
                          \o TimeInfo(m.exec_time),
                        [NoParams EXCEPT !.title = Some(<< "Test Suite Passed" >>)])

SuiteMessageFormat(p, m) ==
    IF p = "GitHub" THEN SuiteMessageGitHub(m) ELSE SuiteMessagePlain(m)

----------------------------------------------------------------------------
(* Test events *)

TestDiscovered(name) ==
    [kind |-> "Test", event |-> "Discovered", name |-> name, ignore |-> FALSE,
     ignore_message |-> None, source_path |-> "t.rs",
     start_line |-> 1, start_col |-> 4, end_line |-> 3, end_col |-> 2]
TestStarted(name) == [kind |-> "Test", event |-> "Started", name |-> name]
TestOk(name, exec_time, stdout) ==
    [kind |-> "Test", event |-> "Ok", name |-> name, exec_time |-> exec_time,
     stdout |-> stdout]
TestFailed(name, exec_time, stdout, message) ==
    [kind |-> "Test", event |-> "Failed", name |-> name,
     exec_time |-> exec_time, stdout |-> stdout, message |-> message]
TestTimeout(name) == [kind |-> "Test", event |-> "Timeout", name |-> name]
TestIgnored(name, message) ==
    [kind |-> "Test", event |-> "Ignored", name |-> name, message |-> message]

\* s.replace('\n', " ")
ReplaceNewlines(text) ==
    [i \in 1..Len(text) |-> IF text[i] = "\n" THEN " " ELSE text[i]]

\* stdout.as_ref().filter(|s| !s.is_empty())
NonEmpty(opt) == IF opt # None /\ opt[1] # << >> THEN opt ELSE None

\* {ignore_message:?}
DebugOption(opt) ==
    IF opt = None THEN << "None" >> ELSE << "Some(\"" >> \o opt[1] \o << "\")" >>

\* {ignore}
DisplayBool(b) == IF b THEN "true" ELSE "false"

\* the text in the brackets of a Discovered line
DiscoveredDetails(m) ==
    << " (ignored: ", DisplayBool(m.ignore), ", message: " >>
      \o DebugOption(m.ignore_message)
      \o << ", location: ", m.source_path, ":", ToString(m.start_line), ":",
            ToString(m.start_col), "-", ToString(m.end_line), ":",
            ToString(m.end_col), ")" >>

\* impl CiMessage<Plain> for TestMessage
TestMessagePlain(m) ==
    CASE m.event = "Discovered" ->
           << "TEST DISCOVERED: ", m.name >> \o DiscoveredDetails(m)
      [] m.event = "Started" -> << "TEST STARTED: ", m.name >>
      [] m.event = "Ok" ->
           (IF NonEmpty(m.stdout) # None THEN m.stdout[1] \o << "\n" >> ELSE << >>)
             \o << "TEST OK: ", m.name >>
             \o (IF m.exec_time # None
                 THEN << " (executed in " >> \o Fixed2(m.exec_time[1]) \o << "s)" >>
                 ELSE << >>)
      [] m.event = "Failed" ->
           (IF NonEmpty(m.stdout) # None THEN m.stdout[1] \o << "\n" >> ELSE << >>)
             \o << "TEST FAILED: ", m.name >>
             \o (IF m.exec_time # None
                 THEN << " (executed in " >> \o Fixed2(m.exec_time[1]) \o << "s)" >>
                 ELSE << >>)
             \o (IF m.message # None THEN << " - " >> \o m.message[1] ELSE << >>)
             \o << "\n" >>
      [] m.event = "Timeout" -> << "TEST TIMEOUT: ", m.name >>
      [] m.event = "Ignored" ->
           << "TEST IGNORED: ", m.name >>
             \o (IF NonEmpty(m.message) # None
                 THEN << " - " >> \o ReplaceNewlines(m.message[1])
                 ELSE << >>)

\* impl CiMessage<GitHub> for TestMessage
TestMessageGitHub(m) ==
    CASE m.event = "Discovered" ->
           GitHubDebug(<< "Discovered test: ", m.name >> \o DiscoveredDetails(m))
      [] m.event = "Started" -> GitHubGroup(<< "Test: ", m.name >>)
      [] m.event = "Ok" ->
           (IF NonEmpty(m.stdout) # None THEN m.stdout[1] \o << "\n" >> ELSE << >>)
             \o GitHubNotice(IF m.exec_time # None
                             THEN << "Executed in " >> \o Fixed2(m.exec_time[1])
                                    \o << "s" >>
                             ELSE << >>,
                             [NoParams EXCEPT
                                !.title = Some(<< "Test Passed: ", m.name >>)])
             \o GitHubEndgroup
      [] m.event = "Failed" ->
           (IF NonEmpty(m.stdout) # None THEN m.stdout[1] \o << "\n" >> ELSE << >>)
             \o GitHubEndgroup
             \o GitHubNotice(IF m.message # None THEN m.message[1] ELSE << >>,
                             [NoParams EXCEPT
                                !.title = Some(
                                   << "Test Failed: ", m.name >>
                                     \o (IF m.exec_time # None
                                         THEN << " (executed in " >>
                                                \o Fixed2(m.exec_time[1])
                                                \o << "s)" >>
                                         ELSE << >>))])
      [] m.event = "Timeout" ->
           GitHubEndgroup
             \o GitHubError(<< m.name >>,
                            [NoParams EXCEPT !.title = Some(<< "Test Timeout" >>)])
      [] m.event = "Ignored" ->
           GitHubNotice(IF NonEmpty(m.message) # None
                        THEN ReplaceNewlines(m.message[1]) ELSE << >>,
                        [NoParams EXCEPT
                           !.title = Some(<< "Test Ignored: ", m.name >>)])

TestMessageFormat(p, m) ==
    IF p = "GitHub" THEN TestMessageGitHub(m) ELSE TestMessagePlain(m)

\* CiMessage<P>::format for the messages of the model
CiFormat(p, m) ==
    CASE m.kind = "BuildFinished" -> BuildFinishedFormat(p, m)
      [] m.kind = "Suite" -> SuiteMessageFormat(p, m)
      [] m.kind = "CompilerMessage" -> DiagnosticFormat(p, m.message)
      [] m.kind = "Test" -> TestMessageFormat(p, m)

\* a dispatch that renders a line for each result, the Err results included
ParseAndFormat_KeepErrs(p, name, selfBuffer, buf) ==
    LET r == ToolParse(name, selfBuffer, buf)
    IN  [buffer |-> r.buffer,
         results |-> r.results,
         strings |-> [i \in 1..Len(r.results) |->
                        IF r.results[i].ok THEN CiFormat(p, r.results[i].msg)
                        ELSE << "error" >>]]

\* DynTool<P>::parse_and_format: parse, render each Ok, drop each Err
ParseAndFormat(p, name, selfBuffer, buf) ==
    LET r == ToolParse(name, selfBuffer, buf)
        oks == SelectSeq(r.results, LAMBDA x : x.ok)
    IN  [buffer |-> r.buffer,
         results |-> r.results,
         strings |-> [i \in 1..Len(oks) |-> CiFormat(p, oks[i].msg)]]

----------------------------------------------------------------------------
(* A tool used through DynTool<P>: calls of parse_and_format *)

Platforms == {"GitHub", "Plain"}

DispatchInit ==
    /\ toolName \in ToolNames
    /\ toolBuffer = << >>
    /\ fed = << >>
    /\ results = << >>
    /\ splits = 0
    /\ pc = "dispatch"
    /\ githubEnv = "unset"
    /\ argsDetect = FALSE
    /\ argsTool = "none"
    /\ platform \in Platforms
    /\ buffer = << >>
    /\ consumed = << >>
    /\ out = << >>

\* What a caller passes is made of pieces: the records of the tool, a lone
\* brace (the start of a line that fails to deserialize) and the newline.
Pieces(name) ==
    { << LBRACE >>, << NL >> } \cup
        (IF name = "cargo-check"
         THEN { << LBRACE, CARGO_REST >>, << LBRACE, CARGO_FAILED_REST >> }
         ELSE { << LBRACE, LIBTEST_REST >> })

\* each piece holds one brace or one newline
PiecesIn(s) == Len(SelectSeq(s, LAMBDA b : b \in {LBRACE, NL}))

RECURSIVE Flatten(_)
Flatten(ps) == IF ps = << >> THEN << >> ELSE Head(ps) \o Flatten(Tail(ps))

\* the buffers a caller may pass when `room` more pieces fit the bound
Buffers(name, room) ==
    { Flatten(ps) : ps \in UNION { [1..k -> Pieces(name)] : k \in 0..room } }

\* one call tool.parse_and_format(buf)
ParseAndFormatCall(name, buf) ==
    /\ LET r == ParseAndFormat(platform, name, toolBuffer, buf) IN
         /\ toolBuffer' = r.buffer
         /\ results' = results \o r.results
         /\ out' = out \o r.strings
    /\ fed' = fed \o buf
    /\ splits' = IF toolBuffer # << >> THEN Min(splits + 1, MaxSplits) ELSE splits
    /\ UNCHANGED << toolName, pc, githubEnv, argsDetect, argsTool, platform,
                    buffer, consumed >>

CargoCheckDispatch ==
    /\ pc = "dispatch"
    /\ toolName = "cargo-check"
    /\ \E buf \in Buffers("cargo-check", MaxPieces - PiecesIn(fed)) :
          ParseAndFormatCall("cargo-check", buf)

CargoLibtestDispatch ==
    /\ pc = "dispatch"
    /\ toolName = "cargo-libtest"
    /\ \E buf \in Buffers("cargo-libtest", MaxPieces - PiecesIn(fed)) :
          ParseAndFormatCall("cargo-libtest", buf)

DispatchNext == CargoCheckDispatch \/ CargoLibtestDispatch

DispatchSpec == DispatchInit /\ [][DispatchNext]_vars

----------------------------------------------------------------------------
(* Rendering the messages a tool has parsed *)

\* the diagnostics rendered: every level, with and without a code, with and
\* without a primary span, alone and with children and grandchildren
Codes == { None, Some("E001") }

NotPrimary == DiagnosticSpan("n.rs", 1, 1, 1, 2, FALSE)
PrimaryA == DiagnosticSpan("a.rs", 3, 5, 3, 9, TRUE)
PrimaryB == DiagnosticSpan("b.rs", 7, 2, 8, 4, TRUE)

SpanLists ==
    { << >>, << NotPrimary >>, << PrimaryA >>, << NotPrimary, PrimaryA, PrimaryB >> }

\* the shape of a tree: the sequence of the shapes of the children
Leaf == << >>
Shapes ==
    { Leaf, << Leaf >>, << Leaf, Leaf >>, << << Leaf >> >>,
      << << Leaf >>, Leaf >> }

LevelOrder ==
    << "Error", "Warning", "Note", "Help", "FailureNote", "InternalCompilerError" >>

LevelIndex(level) == CHOOSE i \in 1..Len(LevelOrder) : LevelOrder[i] = level

\* the level i places after `level`, going round
LevelAfter(level, i) ==
    LevelOrder[((LevelIndex(level) - 1 + i) % Len(LevelOrder)) + 1]

ChildMessages == << "first child", "second child" >>

\* the tree of the given shape: the children differ from their parent and
\* from each other in level; the first keeps the spans, the others the code
RECURSIVE DiagnosticTree(_, _, _, _, _)
DiagnosticTree(message, code, level, spans, shape) ==
    Diagnostic(message, code, level, spans,
               [i \in 1..Len(shape) |->
                  DiagnosticTree(ChildMessages[i],
                                 IF i = 1 THEN None ELSE code,
                                 LevelAfter(level, i),
                                 IF i = 1 THEN spans ELSE << >>,
                                 shape[i])])

Diagnostics ==
    { DiagnosticTree("message", code, level, spans, shape) :
        code \in Codes, level \in DiagnosticLevels, spans \in SpanLists,
        shape \in Shapes }

CargoMessages ==
    { BuildFinished(TRUE), BuildFinished(FALSE) }
      \cup { CompilerMessage(d) : d \in Diagnostics }

TestNames == {"a", "b"}

LibTestMessages ==
    { SuiteStarted, TestDiscovered("a"),
      TestOk("a", None, Some(<< >>)), TestIgnored("a", Some(<< >>)) }
      \cup { TestStarted(n) : n \in TestNames }
      \cup { TestOk(n, None, None) : n \in TestNames }
      \cup { TestOk(n, Some(1234), Some(<< "printed" >>)) : n \in TestNames }
      \cup { TestFailed(n, None, None, None) : n \in TestNames }
      \cup { TestFailed(n, Some(1234), Some(<< "printed" >>), Some(<< "panicked" >>)) :
               n \in TestNames }
      \cup { TestTimeout(n) : n \in TestNames }
      \cup { TestIgnored(n, None) : n \in TestNames }
      \cup { TestIgnored(n, Some(<< "not", "\n", "now" >>)) : n \in TestNames }

\* the suite events besides Started: discovery, and results with and without
\* a time, one of them a time of zero
SuiteMessages ==
    { SuiteDiscovery, SuiteCompleted(3, 1, 4, 2),
      SuiteOk(40, 1, 2, 3, 5, Some(1234)), SuiteOk(40, 1, 2, 3, 5, None),
      SuiteFailed(40, 1, 2, 3, 5, Some(0)), SuiteFailed(40, 1, 2, 3, 5, None) }

RenderInit ==
    /\ toolName \in ToolNames
    /\ toolBuffer = << >>
    /\ fed = << >>
    /\ results = << >>
    /\ splits = 0
    /\ pc = "render"
    /\ githubEnv = "unset"
    /\ argsDetect = FALSE
    /\ argsTool = "none"
    /\ platform \in Platforms
    /\ buffer = << >>
    /\ consumed = << >>
    /\ out = << >>

\* the rendering carries the number of messages rendered before it
Render_Numbered(m) ==
    /\ results' = Append(results, Ok(m))
    /\ out' = Append(out, CiFormat(platform, m) \o << ToString(Len(out)) >>)
    /\ UNCHANGED << toolName, toolBuffer, fed, splits, pc, githubEnv,
                    argsDetect, argsTool, platform, buffer, consumed >>

\* a message the tool has parsed is rendered for the platform
Render(m) ==
    /\ results' = Append(results, Ok(m))
    /\ out' = Append(out, CiFormat(platform, m))
    /\ UNCHANGED << toolName, toolBuffer, fed, splits, pc, githubEnv,
                    argsDetect, argsTool, platform, buffer, consumed >>

RenderCargoMessage ==
    /\ pc = "render"
    /\ toolName = "cargo-check"
    /\ Len(results) < MaxCargoMessages
    /\ \E m \in CargoMessages : Render(m)

RenderLibTestMessage ==
    /\ pc = "render"
    /\ toolName = "cargo-libtest"
    /\ Len(results) < MaxEvents
    /\ \E m \in LibTestMessages : Render(m)

RenderSuiteMessage ==
    /\ pc = "render"
    /\ toolName = "cargo-libtest"
    /\ Len(results) < MaxSuiteEvents
    /\ \E m \in SuiteMessages : Render(m)

RenderNext == RenderCargoMessage \/ RenderLibTestMessage \/ RenderSuiteMessage

RenderSpec == RenderInit /\ [][RenderNext]_vars

----------------------------------------------------------------------------
(* The workflow commands of GitHub, built by a caller *)

\* the parameters a caller may give: each field absent or present
AnnotationParamSets ==
    [file : {None, Some("src/main.rs")},
     line : {None, Some(42)},
     col : {None, Some(10)},
     end_line : {None, Some(45)},
     end_column : {None, Some(20)},
     title : {None, Some(<< "Test Title" >>)}]

\* the texts a caller may give: a line, nothing, a text that ends its line
Texts == { << "text" >>, << >>, << "text", "\n" >> }

Called(command, text, params) ==
    [kind |-> "Command", command |-> command, text |-> text, params |-> params]

GitHubInit ==
    /\ toolName = "none"
    /\ toolBuffer = << >>
    /\ fed = << >>
    /\ results = << >>
    /\ splits = 0
    /\ pc = "github"
    /\ githubEnv = "unicode"
    /\ argsDetect = FALSE
    /\ argsTool = "none"
    /\ platform = "GitHub"
    /\ buffer = << >>
    /\ consumed = << >>
    /\ out = << >>

\* the call is recorded and the string it returns is kept
Build(call, string) ==
    /\ pc = "github"
    /\ Len(results) < MaxCommands
    /\ results' = Append(results, Ok(call))
    /\ out' = Append(out, string)
    /\ UNCHANGED << toolName, toolBuffer, fed, splits, pc, githubEnv,
                    argsDetect, argsTool, platform, buffer, consumed >>

\* GitHub::notice, GitHub::warning, GitHub::error
AnnotationCall ==
    \E text \in Texts, params \in AnnotationParamSets :
        \/ Build(Called("notice", text, params), GitHubNotice(text, params))
        \/ Build(Called("warning", text, params), GitHubWarning(text, params))
        \/ Build(Called("error", text, params), GitHubError(text, params))

\* GitHub::debug, group, add_mask, stop_commands, resume_commands
TextCommandCall ==
    \E text \in Texts :
        \/ Build(Called("debug", text, NoParams), GitHubDebug(text))
        \/ Build(Called("group", text, NoParams), GitHubGroup(text))
        \/ Build(Called("add-mask", text, NoParams), GitHubAddMask(text))
        \/ Build(Called("stop-commands", text, NoParams), GitHubStopCommands(text))
        \/ Build(Called("resume-commands", text, NoParams),
                 GitHubResumeCommands(text))

\* GitHub::endgroup, GitHub::echo
FixedCommandCall ==
    \/ Build(Called("endgroup", << >>, NoParams), GitHubEndgroup)
    \/ \E enable \in BOOLEAN :
          Build(Called("echo", << IF enable THEN "on" ELSE "off" >>, NoParams),
                GitHubEcho(enable))

GitHubNext ==
    \/ AnnotationCall
    \/ TextCommandCall
    \/ FixedCommandCall

GitHubSpec == GitHubInit /\ [][GitHubNext]_vars

----------------------------------------------------------------------------
(* Wire records and their derived Deserialize *)

\* A JSON object is a function from its keys to values: << >> is null and
\* << v >> the value v.

\* the variants named as rename_all = "kebab-case" alone would name them
DiagnosticLevelDeserialize_KebabCase(string) ==
    CASE string = "error" -> << "Error" >>
      [] string = "warning" -> << "Warning" >>
      [] string = "note" -> << "Note" >>
      [] string = "help" -> << "Help" >>
      [] string = "failure-note" -> << "FailureNote" >>
      [] string = "internal-compiler-error" -> << "InternalCompilerError" >>
      [] OTHER -> << >>

\* #[serde(rename = ..)] on the variants of DiagnosticLevel: the level a wire
\* string names, None for any other string
DiagnosticLevelDeserialize(string) ==
    CASE string = "error" -> Some("Error")
      [] string = "warning" -> Some("Warning")
      [] string = "note" -> Some("Note")
      [] string = "help" -> Some("Help")
      [] string = "failure-note" -> Some("FailureNote")
      [] string = "error: internal compiler error" -> Some("InternalCompilerError")
      [] OTHER -> None

\* a struct that denies unknown fields
DeserializeStruct_DenyUnknown(object, required, optional) ==
    IF \/ \E f \in required : f \notin DOMAIN object \/ object[f] = << >>
       \/ DOMAIN object \ (required \cup optional
                              \cup {"reason", "type", "event", "$message_type"}) # {}
    THEN << >>
    ELSE << [f \in required \cup optional |->
               IF f \in required THEN object[f][1]
               ELSE IF f \in DOMAIN object THEN object[f] ELSE << >>] >>

\* an Option field is read as None whatever the record holds
DeserializeStruct_OptionsLost(object, required, optional) ==
    IF \E f \in required : f \notin DOMAIN object \/ object[f] = << >>
    THEN << >>
    ELSE << [f \in required \cup optional |->
               IF f \in required THEN object[f][1] ELSE << >>] >>

\* a derived struct: every required field present and not null, an Option
\* field None when absent or null, any other key ignored
DeserializeStruct(object, required, optional) ==
    IF \E f \in required : f \notin DOMAIN object \/ object[f] = << >>
    THEN None
    ELSE Some([f \in required \cup optional |->
                 IF f \in required THEN object[f][1]
                 ELSE IF f \in DOMAIN object THEN object[f] ELSE None])

\* #[serde(tag = ..)]: the variant whose renamed name stands under the tag,
\* then the variant's own tag and fields; no variant, no value
DeserializeTagged(object, tags, variants) ==
    LET named == { v \in variants :
                     /\ Len(v.tags) <= Len(tags)
                     /\ \A i \in 1..Len(v.tags) :
                           /\ tags[i] \in DOMAIN object
                           /\ object[tags[i]] = << v.tags[i] >> }
    IN  IF named = {} THEN None
        ELSE LET v == CHOOSE w \in named : TRUE
                 fields == DeserializeStruct(object, v.required, v.optional)
             IN  IF fields = None THEN None ELSE Some(v.name @@ fields[1])

\* SuiteMessage, TestMessage, BenchMessage, ReportMessage under LibTestMessage:
\* tag "type", then tag "event", both snake_case
LibTestVariants ==
    { [tags |-> << "suite", "discovery" >>,
       name |-> [kind |-> "Suite", event |-> "Discovery"],
       required |-> {}, optional |-> {}],
      [tags |-> << "suite", "completed" >>,
       name |-> [kind |-> "Suite", event |-> "Completed"],
       required |-> {"tests", "benchmarks", "total", "ignored"}, optional |-> {}],
      [tags |-> << "suite", "started" >>,
       name |-> [kind |-> "Suite", event |-> "Started"],
       required |-> {"test_count"}, optional |-> {"shuffle_seed"}],
      [tags |-> << "suite", "ok" >>,
       name |-> [kind |-> "Suite", event |-> "Ok"],
       required |-> {"passed", "failed", "ignored", "measured", "filtered_out"},
       optional |-> {"exec_time"}],
      [tags |-> << "suite", "failed" >>,
       name |-> [kind |-> "Suite", event |-> "Failed"],
       required |-> {"passed", "failed", "ignored", "measured", "filtered_out"},
       optional |-> {"exec_time"}],
      [tags |-> << "test", "discovered" >>,
       name |-> [kind |-> "Test", event |-> "Discovered"],
       required |-> {"name", "ignore", "source_path", "start_line", "start_col",
                     "end_line", "end_col"},
       optional |-> {"ignore_message"}],
      [tags |-> << "test", "started" >>,
       name |-> [kind |-> "Test", event |-> "Started"],
       required |-> {"name"}, optional |-> {}],
      [tags |-> << "test", "ok" >>,
       name |-> [kind |-> "Test", event |-> "Ok"],
       required |-> {"name"}, optional |-> {"exec_time", "stdout"}],
      [tags |-> << "test", "failed" >>,
       name |-> [kind |-> "Test", event |-> "Failed"],
       required |-> {"name"}, optional |-> {"exec_time", "stdout", "message"}],
      [tags |-> << "test", "timeout" >>,
       name |-> [kind |-> "Test", event |-> "Timeout"],
       required |-> {"name"}, optional |-> {}],
      [tags |-> << "test", "ignored" >>,
       name |-> [kind |-> "Test", event |-> "Ignored"],
       required |-> {"name"}, optional |-> {"message"}],
      [tags |-> << "bench" >>, name |-> [kind |-> "Bench"],
       required |-> {"name", "median", "deviation"},
       optional |-> {"mib_per_second"}],
      [tags |-> << "report" >>, name |-> [kind |-> "Report"],
       required |-> {"total_time", "compilation_time"}, optional |-> {}] }

\* serde_json::from_value::<LibTestMessage>
LibTestMessageDeserialize(object) ==
    DeserializeTagged(object, << "type", "event" >>, LibTestVariants)

\* the variants of RustcMessage: tag "$message_type", snake_case
RustcVariants ==
    { [tags |-> << "diagnostic" >>, name |-> [kind |-> "Diagnostic"],
       required |-> {"message", "level", "spans", "children"},
       optional |-> {"code", "rendered"}],
      [tags |-> << "artifact" >>, name |-> [kind |-> "Artifact"],
       required |-> {"artifact", "emit"}, optional |-> {}],
      [tags |-> << "future_incompat" >>, name |-> [kind |-> "FutureIncompat"],
       required |-> {"future_incompat_report"}, optional |-> {}],
      [tags |-> << "unused_externs" >>, name |-> [kind |-> "UnusedExterns"],
       required |-> {"lint_level", "unused_names"}, optional |-> {}],
      [tags |-> << "section_timing" >>, name |-> [kind |-> "SectionTiming"],
       required |-> {"event", "name", "time"}, optional |-> {}] }

\* RustcMessage; the level of a diagnostic is deserialized from its string
RustcMessageDeserialize(object) ==
    LET shallow == DeserializeTagged(object, << "$message_type" >>, RustcVariants)
    IN  IF shallow = None \/ shallow[1].kind # "Diagnostic" THEN shallow
        ELSE LET level == DiagnosticLevelDeserialize(shallow[1].level)
             IN  IF level = None THEN None
                 ELSE Some([shallow[1] EXCEPT !.level = level[1]])

\* the variants of CargoMessage in src/: tag "reason", kebab-case
CargoVariants ==
    { [tags |-> << "compiler-message" >>, name |-> [kind |-> "CompilerMessage"],
       required |-> {"package_id", "manifest_path", "target", "message"},
       optional |-> {}],
      [tags |-> << "build-script-executed" >>,
       name |-> [kind |-> "BuildScriptExecuted"],
       required |-> {"package_id", "linked_libs", "linked_paths", "cfgs", "env",
                     "out_dir"},
       optional |-> {}],
      [tags |-> << "build-finished" >>, name |-> [kind |-> "BuildFinished"],
       required |-> {"success"}, optional |-> {}] }

\* serde_json::from_value::<CargoMessage>; the message of a compiler-message
\* is a RustcMessage
CargoMessageDeserialize(object) ==
    LET shallow == DeserializeTagged(object, << "reason" >>, CargoVariants)
    IN  IF shallow = None \/ shallow[1].kind # "CompilerMessage" THEN shallow
        ELSE LET message == RustcMessageDeserialize(shallow[1].message)
             IN  IF message = None THEN None
                 ELSE Some([shallow[1] EXCEPT !.message = message[1]])

----------------------------------------------------------------------------
(* Records given to the deserializers *)

\* the JSON object with the keys and values of a record
Wire(record) == [k \in DOMAIN record |-> << record[k] >>]

\* records as the test harness writes them
LibTestRecords ==
    { Wire([type |-> "suite", event |-> "discovery"]),
      Wire([type |-> "suite", event |-> "completed", tests |-> 3,
            benchmarks |-> 1, total |-> 4, ignored |-> 2]),
      Wire([type |-> "suite", event |-> "started", test_count |-> 1]),
      Wire([type |-> "suite", event |-> "started", test_count |-> 1,
            shuffle_seed |-> 7]),
      Wire([type |-> "suite", event |-> "ok", passed |-> 40, failed |-> 1,
            ignored |-> 2, measured |-> 3, filtered_out |-> 5,
            exec_time |-> 1234]),
      Wire([type |-> "suite", event |-> "failed", passed |-> 40, failed |-> 1,
            ignored |-> 2, measured |-> 3, filtered_out |-> 5]),
      Wire([type |-> "test", event |-> "discovered", name |-> "a",
            ignore |-> FALSE, ignore_message |-> << >>, source_path |-> "t.rs",
            start_line |-> 1, start_col |-> 4, end_line |-> 3, end_col |-> 2]),
      Wire([type |-> "test", event |-> "started", name |-> "a"]),
      Wire([type |-> "test", event |-> "ok", name |-> "a"]),
      Wire([type |-> "test", event |-> "ok", name |-> "a", exec_time |-> 1234,
            stdout |-> << "printed" >>]),
      Wire([type |-> "test", event |-> "failed", name |-> "a",
            exec_time |-> 1234, stdout |-> << "printed" >>,
            message |-> << "panicked" >>]),
      Wire([type |-> "test", event |-> "timeout", name |-> "a"]),
      Wire([type |-> "test", event |-> "ignored", name |-> "a",
            message |-> << "not", "\n", "now" >>]),
      Wire([type |-> "bench", name |-> "a", median |-> 1234, deviation |-> 56]),
      Wire([type |-> "bench", name |-> "a", median |-> 1234, deviation |-> 56,
            mib_per_second |-> 12]),
      Wire([type |-> "report", total_time |-> 10500, compilation_time |-> 8200]) }

\* strings found where a level is expected: the six of rustc and others
LevelStrings ==
    { "error", "warning", "note", "help", "failure-note",
      "error: internal compiler error",
      "Error", "failure_note", "internal-compiler-error", "" }

\* records as rustc writes them
RustcRecords ==
    { Wire([message |-> << "unused" >>, code |-> "E001", level |-> l,
            spans |-> << >>, children |-> << >>, rendered |-> << "unused" >>])
        @@ ("$message_type" :> << "diagnostic" >>) : l \in LevelStrings }
      \cup
    { Wire([artifact |-> "a.rmeta", emit |-> "metadata"])
        @@ ("$message_type" :> << "artifact" >>),
      Wire([future_incompat_report |-> << >>])
        @@ ("$message_type" :> << "future_incompat" >>),
      Wire([lint_level |-> "warn", unused_names |-> << "x" >>])
        @@ ("$message_type" :> << "unused_externs" >>),
      Wire([event |-> "start", name |-> "link", time |-> 12])
        @@ ("$message_type" :> << "section_timing" >>) }

\* records as cargo writes them
CargoRecords ==
    { Wire([reason |-> "build-finished", success |-> b]) : b \in BOOLEAN }
      \cup
    { Wire([reason |-> "build-script-executed", package_id |-> "p",
            linked_libs |-> << >>, linked_paths |-> << >>, cfgs |-> << >>,
            env |-> << >>, out_dir |-> "out"]) }
      \cup
    { Wire([reason |-> "compiler-message", package_id |-> "p",
            manifest_path |-> "Cargo.toml", target |-> "lib", message |-> r]) :
        r \in RustcRecords }

\* what a record may differ by from these: unknown fields added, a key left
\* out, a value null, a discriminant changed
Edits(object) ==
    { [op |-> "none", key |-> "", fields |-> << >>] }
      \cup { [op |-> "unknown", key |-> "", fields |-> u] :
               u \in { [unknown_field |-> << 1 >>],
                       [unknown_field |-> << 1 >>, zzz |-> << >>,
                        success_rate |-> << "x" >>] } }
      \cup { [op |-> o, key |-> k, fields |-> << >>] :
               o \in {"absent", "null"}, k \in DOMAIN object }
      \cup { [op |-> "unrecognized", key |-> k, fields |-> << >>] :
               k \in IF "$message_type" \in DOMAIN object
                     THEN {"$message_type"}
                     ELSE {"reason", "type", "event"} \cap DOMAIN object }

Edited(object, e) ==
    CASE e.op = "none" -> object
      [] e.op = "unknown" -> object @@ e.fields
      [] e.op = "absent" -> [k \in DOMAIN object \ {e.key} |-> object[k]]
      [] e.op = "null" -> [object EXCEPT ![e.key] = << >>]
      [] e.op = "unrecognized" -> [object EXCEPT ![e.key] = << "unrecognized" >>]

WireInit ==
    /\ toolName \in ToolNames
    /\ toolBuffer = << >>
    /\ fed = << >>
    /\ results = << >>
    /\ splits = 0
    /\ pc = "wire"
    /\ githubEnv = "unset"
    /\ argsDetect = FALSE
    /\ argsTool = "none"
    /\ platform = "Plain"
    /\ buffer = << >>
    /\ consumed = << >>
    /\ out = << >>

\* a record is deserialized; what it was made from is kept beside the outcome
FromValue(object, e, inner, wire, message) ==
    /\ fed' = Append(fed, wire)
    /\ consumed' = Append(consumed, [record |-> object, edit |-> e, inner |-> inner])
    /\ results' = Append(results, IF message = None THEN Err(wire) ELSE Ok(message[1]))
    /\ UNCHANGED << toolName, toolBuffer, splits, pc, githubEnv, argsDetect,
                    argsTool, platform, buffer, out >>

CargoMessageFromValue ==
    /\ pc = "wire"
    /\ toolName = "cargo-check"
    /\ Len(results) < MaxRecords
    /\ \E object \in CargoRecords :
         \/ \E e \in Edits(object) :
               LET wire == Edited(object, e)
               IN  FromValue(object, e, FALSE, wire, CargoMessageDeserialize(wire))
         \/ /\ object.reason = << "compiler-message" >>
            /\ \E e \in Edits(object.message[1]) :
                  LET wire == [object EXCEPT
                                 !.message = << Edited(object.message[1], e) >>]
                  IN  FromValue(object, e, TRUE, wire, CargoMessageDeserialize(wire))

LibTestMessageFromValue ==
    /\ pc = "wire"
    /\ toolName = "cargo-libtest"
    /\ Len(results) < MaxRecords
    /\ \E object \in LibTestRecords :
         \E e \in Edits(object) :
            LET wire == Edited(object, e)
            IN  FromValue(object, e, FALSE, wire, LibTestMessageDeserialize(wire))

WireNext == CargoMessageFromValue \/ LibTestMessageFromValue

WireSpec == WireInit /\ [][WireNext]_vars

----------------------------------------------------------------------------
(* The format command *)

CHUNK_SIZE == 16 * 1024

FormatInit ==
    /\ toolName = "none"
    /\ toolBuffer = << >>
    /\ fed = << >>
    /\ results = << >>
    /\ splits = 0
    /\ pc = "execute"
    /\ githubEnv \in EnvValues
    /\ argsDetect \in BOOLEAN
    /\ argsTool \in (IF argsDetect THEN {"none"} ELSE ToolNames \cup {"none"})
    /\ platform = "none"
    /\ buffer = << >>
    /\ consumed = << >>
    /\ out = << >>

\* what one read may return when `room` more bytes fit the bound
Reads(room) == UNION { [1..n -> Alphabet] : n \in 1..Min(CHUNK_SIZE, room) }

\* execute: the platform is chosen from the environment
Execute ==
    /\ pc = "execute"
    /\ platform' = IF GitHubFromEnv(githubEnv) THEN "GitHub" ELSE "Plain"
    /\ pc' = "select_tool"
    /\ UNCHANGED << toolName, toolBuffer, fed, results, splits, githubEnv,
                    argsDetect, argsTool, buffer, consumed, out >>

\* execute_with_platform, args.tool given: ToolFormat::into_dyn_tool
SelectExplicit ==
    /\ pc = "select_tool"
    /\ ~argsDetect
    /\ argsTool # "none"
    /\ toolName' = argsTool
    /\ toolBuffer' = << >>
    /\ pc' = "stream"
    /\ UNCHANGED << fed, results, splits, githubEnv, argsDetect, argsTool,
                    platform, buffer, consumed, out >>

\* neither --detect nor a tool: bail!
SelectNone ==
    /\ pc = "select_tool"
    /\ ~argsDetect
    /\ argsTool = "none"
    /\ pc' = "failed"
    /\ UNCHANGED << toolName, toolBuffer, fed, results, splits, githubEnv,
                    argsDetect, argsTool, platform, buffer, consumed, out >>

\* --detect: one read (possibly of nothing) is the sample; tool::detect(buffer)?
SelectDetect ==
    /\ pc = "select_tool"
    /\ argsDetect
    /\ \E sample \in Reads(MaxStdin) \cup { << >> } :
         /\ buffer' = sample
         /\ consumed' = consumed \o sample
         /\ toolName' = ToolDetect(sample)
         /\ pc' = IF ToolDetect(sample) = "none" THEN "failed" ELSE "detected"
    /\ toolBuffer' = << >>
    /\ UNCHANGED << fed, results, splits, githubEnv, argsDetect, argsTool,
                    platform, out >>

\* the detection sample is left where it is: the tool never receives it
FeedSample_Skip ==
    /\ pc = "detected"
    /\ pc' = "stream"
    /\ UNCHANGED << toolName, toolBuffer, fed, results, splits, githubEnv,
                    argsDetect, argsTool, platform, buffer, consumed, out >>

\* "Process the initial buffer if we read it for detection"
FeedSample ==
    /\ pc = "detected"
    /\ IF argsDetect /\ buffer # << >>
       THEN LET r == ParseAndFormat(platform, toolName, toolBuffer, buffer) IN
              /\ toolBuffer' = r.buffer
              /\ results' = results \o r.results
              /\ out' = out \o r.strings
              /\ fed' = fed \o buffer
       ELSE UNCHANGED << toolBuffer, results, out, fed >>
    /\ pc' = "stream"
    /\ UNCHANGED << toolName, splits, githubEnv, argsDetect, argsTool,
                    platform, buffer, consumed >>

\* one turn of the loop with n > 0
StreamChunk ==
    /\ pc = "stream"
    /\ \E chunk \in Reads(MaxStdin - Len(consumed)) :
         /\ buffer' = chunk
         /\ consumed' = consumed \o chunk
         /\ LET r == ParseAndFormat(platform, toolName, toolBuffer, chunk) IN
              /\ toolBuffer' = r.buffer
              /\ results' = results \o r.results
              /\ out' = out \o r.strings
         /\ fed' = fed \o chunk
    /\ splits' = IF toolBuffer # << >> THEN Min(splits + 1, MaxSplits) ELSE splits
    /\ UNCHANGED << toolName, pc, githubEnv, argsDetect, argsTool, platform >>

\* the read returns 0: end of the stream, the command returns Ok(())
StreamEof ==
    /\ pc = "stream"
    /\ buffer' = << >>
    /\ pc' = "done"
    /\ UNCHANGED << toolName, toolBuffer, fed, results, splits, githubEnv,
                    argsDetect, argsTool, platform, consumed, out >>

FormatNext ==
    \/ Execute
    \/ SelectExplicit
    \/ SelectNone
    \/ SelectDetect
    \/ FeedSample
    \/ StreamChunk
    \/ StreamEof

FormatSpec == FormatInit /\ [][FormatNext]_vars

----------------------------------------------------------------------------
(* The fold of CargoCheck::detect, line by line *)

\* the lines of a sample of many lines: the shortest record of cargo, and
\* the empty line
FoldLines == { << LBRACE, CARGO_REST >>, << >> }

\* results holds the accumulator (oks, errs) of the fold, consumed the lines
\* folded so far by what serde_json::from_str made of them, fed the bytes of
\* the sample so far
FoldInit ==
    /\ toolName = "cargo-check"
    /\ toolBuffer = << >>
    /\ fed = 0
    /\ results = [oks |-> 0, errs |-> 0]
    /\ splits = 0
    /\ pc = "fold"
    /\ githubEnv = "unset"
    /\ argsDetect = TRUE
    /\ argsTool = "none"
    /\ platform = "Plain"
    /\ buffer = << >>
    /\ consumed = [parsing |-> 0, failing |-> 0]
    /\ out = << >>

\* one more line of the sample goes through the closure of the fold; the
\* sample is at most one read of CHUNK_SIZE bytes
FoldLine ==
    /\ pc = "fold"
    /\ consumed.parsing + consumed.failing < MaxLines
    /\ \E line \in FoldLines :
         /\ fed + Len(ExpandAll(line)) + 1 <= CHUNK_SIZE
         /\ fed' = fed + Len(ExpandAll(line)) + 1
         /\ results' = DetectFold(<< line >>, results.oks, results.errs)
         /\ consumed' = IF CargoMessageFromSlice(line).ok
                        THEN [consumed EXCEPT !.parsing = @ + 1]
                        ELSE [consumed EXCEPT !.failing = @ + 1]
    /\ UNCHANGED << toolName, toolBuffer, splits, pc, githubEnv, argsDetect,
                    argsTool, platform, buffer, out >>

FoldSpec == FoldInit /\ [][FoldLine]_vars

----------------------------------------------------------------------------
(* The stream as lines, read one byte at a time *)

RECURSIVE LinesOf(_)
LinesOf(s) ==
    IF s = << >> THEN [done |-> << >>, frag |-> << >>]
    ELSE LET p == LinesOf(SubSeq(s, 1, Len(s) - 1))
             b == s[Len(s)]
         IN  IF b = NL
             THEN [done |-> Append(p.done, p.frag), frag |-> << >>]
             ELSE [done |-> p.done, frag |-> Append(p.frag, b)]

Completed(s) == LinesOf(s).done
Fragment(s) == LinesOf(s).frag

Decodes(name, line) ==
    IF name = "cargo-check" THEN CargoMessageFromSlice(line).ok
    ELSE LibTestMessageFromSlice(line).ok

Decoded(name, line) ==
    IF name = "cargo-check" THEN CargoMessageFromSlice(line)
    ELSE LibTestMessageFromSlice(line)

BraceFirst(line) == line # << >> /\ Head(line) = LBRACE

FailsAsRecord(name, line) == BraceFirst(line) /\ ~Decodes(name, line)

Outcome(name, line) ==
    IF line = << >> THEN << >>
    ELSE IF Decodes(name, line) THEN << Decoded(name, line) >>
    ELSE IF BraceFirst(line) THEN << Err(line) >>
    ELSE << >>

RECURSIVE Outcomes(_, _)
Outcomes(name, lines) ==
    IF lines = << >> THEN << >>
    ELSE Outcome(name, Head(lines)) \o Outcomes(name, Tail(lines))

RECURSIVE Join(_)
Join(lines) ==
    IF lines = << >> THEN << >>
    ELSE Head(lines) \o << NL >> \o Join(Tail(lines))

OkResults(rs) == SelectSeq(rs, LAMBDA r : r.ok)
ErrResults(rs) == SelectSeq(rs, LAMBDA r : ~r.ok)

----------------------------------------------------------------------------
(* Claims about Tool::parse *)

\* C1: chunk-boundary invariance.  The results returned over any sequence
\* of calls, concatenated, are the results of one call on a fresh tool
\* given the whole stream.
C1_ChunkInvariance ==
    pc = "library" => results = ToolParse(toolName, << >>, fed).results

C1_Witness ==
    /\ toolName = "cargo-check"
    /\ splits >= 1
    /\ Len(OkResults(results)) >= 1
    /\ Len(ErrResults(results)) >= 1

\* C4: buffer invariant.  When parse returns, the buffer holds no newline
\* and is exactly the bytes fed after the last newline.
C4_BufferInvariant ==
    pc = "library" =>
        /\ ~HasNewline(toolBuffer)
        /\ toolBuffer = Fragment(fed)
        /\ (fed = << >> \/ fed[Len(fed)] = NL) => toolBuffer = << >>

C4_Witness ==
    /\ toolName = "cargo-check"
    /\ HasNewline(fed)
    /\ splits >= 1
    /\ Len(toolBuffer) >= 2

\* C5: ordering.  Each call returns, in stream order, the results of
\* exactly the lines whose newline arrived in that call.
C5_Ordering ==
    [][ pc = "library" =>
          results' = results \o
              Outcomes(toolName,
                       SubSeq(Completed(fed'), Len(Completed(fed)) + 1,
                              Len(Completed(fed')))) ]_vars

C5_Witness ==
    /\ toolName = "cargo-check"
    /\ Len(results) >= 2
    /\ results[1].ok
    /\ ~results[2].ok
    /\ splits >= 1

\* C6: asymmetric error policy.  A completed non-empty line that fails to
\* deserialize gives one Err when it begins with '{' and nothing otherwise;
\* an empty line gives nothing.
C6_AsymmetricErrors ==
    pc = "library" =>
        /\ ErrResults(results) =
             [i \in 1..Len(SelectSeq(Completed(fed),
                                     LAMBDA l : FailsAsRecord(toolName, l))) |->
                Err(SelectSeq(Completed(fed),
                              LAMBDA l : FailsAsRecord(toolName, l))[i])]
        /\ Len(OkResults(results)) =
             Len(SelectSeq(Completed(fed), LAMBDA l : Decodes(toolName, l)))

C6_Witness ==
    /\ toolName = "cargo-check"
    /\ \E i \in 1..Len(Completed(fed)) : Completed(fed)[i] = << >>
    /\ \E i \in 1..Len(Completed(fed)) : FailsAsRecord(toolName, Completed(fed)[i])
    /\ \E i \in 1..Len(Completed(fed)) :
          LET l == Completed(fed)[i] IN
            l # << >> /\ ~BraceFirst(l) /\ ~Decodes(toolName, l)
    /\ Len(results) = 1

\* C7 as claimed: a completed line that does not begin with '{' gives no
\* result at all, so every result comes from a line that begins with '{'.
C7_NonBraceIgnored ==
    pc = "library" =>
        Len(results) = Len(SelectSeq(Completed(fed), BraceFirst))

\* C7 amended: a completed line that does not begin with '{' never gives an
\* Err; it gives an Ok when it deserializes (whitespace before a valid
\* record) and nothing otherwise.
C7_NonBraceNeverErr ==
    pc = "library" =>
        /\ \A i \in 1..Len(results) : ~results[i].ok => BraceFirst(results[i].err)
        /\ Len(results) =
             Len(SelectSeq(Completed(fed), BraceFirst))
             + Len(SelectSeq(Completed(fed),
                             LAMBDA l : ~BraceFirst(l) /\ Decodes(toolName, l)))

C7_Witness ==
    /\ toolName = "cargo-check"
    /\ Completed(fed) = << << SP, LBRACE, CARGO_REST >> >>
    /\ results = << Ok(BuildFinishedTrue) >>

\* C8: a parse error is local to its line.  The Ok results and the buffer
\* are those of the stream with the failing '{' lines taken out, and each
\* failing '{' line gave one Err.
WithoutFailing(name, s) ==
    Join(SelectSeq(Completed(s), LAMBDA l : ~FailsAsRecord(name, l)))
        \o Fragment(s)

C8_ErrorLocal ==
    pc = "library" =>
        LET clean == ToolParse(toolName, << >>, WithoutFailing(toolName, fed))
        IN  /\ OkResults(results) = clean.results
            /\ toolBuffer = clean.buffer
            /\ Len(ErrResults(results)) =
                 Len(Completed(fed)) - Len(Completed(WithoutFailing(toolName, fed)))

C8_Witness ==
    /\ toolName = "cargo-check"
    /\ Len(results) >= 2
    /\ ~results[1].ok
    /\ results[2].ok

----------------------------------------------------------------------------
(* Claims about the format command *)

\* C2: no byte is lost or duplicated between stdin and the parser.  Once
\* the tool is streaming, the buffers passed to parse_and_format, joined,
\* are the bytes read from stdin; the detection sample is still in the
\* read buffer, and the detected tool's buffer is empty, when it is fed.
C2_NoByteLost ==
    /\ pc \in {"stream", "done"} => fed = consumed
    /\ pc = "detected" => fed = << >> /\ toolBuffer = << >> /\ buffer = consumed

C2_Witness ==
    /\ argsDetect
    /\ pc = "done"
    /\ toolName = "cargo-check"
    /\ Len(results) >= 1
    /\ splits >= 1
    /\ Len(consumed) = MaxStdin

\* C3: a partial trailing line is never reported.  The results are those of
\* the completed lines alone, a fragment left by one call being the start of
\* the line a later call completes; at the end of the stream the command
\* returns with the fragment unreported.
C3_PartialLineSilent ==
    pc \in {"stream", "done"} =>
        /\ results = Outcomes(toolName, Completed(fed))
        /\ toolBuffer = Fragment(fed)
        /\ Len(out) = Len(OkResults(results))

C3_Witness ==
    /\ pc = "done"
    /\ toolName = "cargo-check"
    /\ BraceFirst(Fragment(consumed))
    /\ toolBuffer = Fragment(consumed)
    /\ splits >= 1
    /\ Len(results) = 1

----------------------------------------------------------------------------
(* Claims about detection *)

\* every line of the sample, a last line without newline included
SampleLines(s) ==
    Completed(s) \o (IF Fragment(s) # << >> THEN << Fragment(s) >> ELSE << >>)

ParsingLines(name, lines) == Len(SelectSeq(lines, LAMBDA l : Decodes(name, l)))
FailingLines(name, lines) == Len(SelectSeq(lines, LAMBDA l : ~Decodes(name, l)))

Detecting == argsDetect /\ pc \in {"detected", "failed"}

\* C9: majority rule of CargoCheck detection.  The sample is detected as
\* cargo-check exactly when more of its lines deserialize as a CargoMessage
\* than do not.
C9_CargoCheckMajority ==
    Detecting =>
        ( toolName = "cargo-check" <=>
            ParsingLines("cargo-check", SampleLines(buffer))
              > FailingLines("cargo-check", SampleLines(buffer)) )

\* C10: CargoLibtest detection follows the majority rule.  A sample whose
\* delimited lines are in strict majority libtest records, none of them a
\* cargo message, is detected as cargo-libtest and the command goes on.
C10_LibtestMajority ==
    ( /\ Detecting
      /\ ParsingLines("cargo-libtest", Completed(buffer))
           > FailingLines("cargo-libtest", Completed(buffer))
      /\ ParsingLines("cargo-check", SampleLines(buffer)) = 0 )
    => (pc = "detected" /\ toolName = "cargo-libtest")

\* C11: detection counts only delimited lines.  The decision on a sample is
\* the decision on its complete lines alone; what follows the last newline
\* counts neither for nor against.
C11_FragmentNotCounted ==
    Detecting =>
        ( toolName = "cargo-check" <=>
            CargoCheckDetect(Join(Completed(buffer))) )

\* the sample with each byte that is not valid UTF-8 replaced by text
Utf8Replaced(s) == [i \in 1..Len(s) |-> IF s[i] = BAD THEN TEXT ELSE s[i]]

\* C12: detection never aborts.  A line that is not valid UTF-8 counts as
\* one failing line, as a line of invalid JSON does, and the lines after it
\* are still counted: the decision is that of the sample with the invalid
\* bytes replaced by text.
C12_InvalidLinesCounted ==
    Detecting =>
        ( toolName = "cargo-check" <=> CargoCheckDetect(Utf8Replaced(buffer)) )

\* C13: detection priority and explicit failure.  CargoCheck wins when it
\* detects, CargoLibtest when it alone detects; the command fails exactly
\* when neither detects, with no tool chosen and nothing written.
C13_PriorityAndFailure ==
    Detecting =>
        /\ CargoCheckDetect(buffer) => toolName = "cargo-check"
        /\ (~CargoCheckDetect(buffer) /\ CargoLibtestDetect(buffer))
              => toolName = "cargo-libtest"
        /\ (~CargoCheckDetect(buffer) /\ ~CargoLibtestDetect(buffer))
              <=> pc = "failed"
        /\ pc = "failed" => (toolName = "none" /\ out = << >> /\ results = << >>)

C13_Witness ==
    /\ Detecting
    /\ pc = "failed"
    /\ buffer = << LBRACE, LIBTEST_REST, NL >>
    /\ toolName = "none"
    /\ out = << >>

----------------------------------------------------------------------------
(* Claims about the platform and the dispatch *)

\* the strings that rendering the Ok results for platform p gives
Rendered(p, rs) ==
    [i \in 1..Len(OkResults(rs)) |-> CiFormat(p, OkResults(rs)[i].msg)]

\* C15: the platform is selected once, before any input is read, and never
\* changes: it is GitHub exactly when GITHUB_ACTIONS is set, whatever its
\* value, and Plain otherwise, and every string written is rendered for it.
C15_PlatformFromEnv ==
    /\ pc = "execute" => (platform = "none" /\ consumed = << >>)
    /\ pc # "execute" =>
          platform = (IF githubEnv # "unset" THEN "GitHub" ELSE "Plain")
    /\ out = Rendered(platform, results)

\* C14: dispatch drops errors and keeps order.  A call of parse_and_format
\* returns, for the results parse gives on that buffer, one string for each
\* Ok in the same order, rendered for the bound platform, and nothing for
\* an Err.
C14_DispatchDropsErrors ==
    [][ pc = "dispatch" =>
          LET buf == SubSeq(fed', Len(fed) + 1, Len(fed'))
              r == ToolParse(toolName, toolBuffer, buf)
              oks == OkResults(r.results)
              strings == SubSeq(out', Len(out) + 1, Len(out'))
          IN  /\ results' = results \o r.results
              /\ out' = out \o strings
              /\ Len(strings) = Len(oks)
              /\ \A i \in 1..Len(oks) :
                    strings[i] = CiFormat(platform, oks[i].msg) ]_vars

\* parse returned Ok, Err, Ok and the two messages were written in order
C14_Witness ==
    /\ pc = "dispatch"
    /\ toolName = "cargo-check"
    /\ platform = "GitHub"
    /\ fed = << LBRACE, CARGO_REST, NL, LBRACE, NL,
                LBRACE, CARGO_FAILED_REST, NL >>
    /\ splits = 0
    /\ results = << Ok(BuildFinishedTrue), Err(<< LBRACE >>),
                    Ok(BuildFinished(FALSE)) >>
    /\ out = << BuildFinishedFormat("GitHub", BuildFinishedTrue),
                BuildFinishedFormat("GitHub", BuildFinished(FALSE)) >>

----------------------------------------------------------------------------
(* Claims about rendering *)

\* a string as its lines: the tokens before each "\n"
NewlinesIn(string) == { j \in 1..Len(string) : string[j] = "\n" }

LineEnd(string, k) ==
    CHOOSE j \in NewlinesIn(string) :
        Cardinality({ h \in NewlinesIn(string) : h <= j }) = k

TokenLines(string) ==
    [k \in 1..Cardinality(NewlinesIn(string)) |->
       SubSeq(string,
              IF k = 1 THEN 1 ELSE LineEnd(string, k - 1) + 1,
              LineEnd(string, k) - 1)]

\* the diagnostics of a tree, each before its children, children in order
RECURSIVE PreOrder(_)
PreOrder(d) ==
    LET RECURSIVE Below(_)
        Below(i) ==
            IF i > Len(d.children) THEN << >>
            ELSE PreOrder(d.children[i]) \o Below(i + 1)
    IN  << d >> \o Below(1)

\* the diagnostic without its children
Alone(d) == [d EXCEPT !.children = << >>]

AnnotationCommands == {"::error", "::warning", "::notice"}
CommandsOf(string) == SelectSeq(string, LAMBDA t : t \in AnnotationCommands)

SeverityCommand(level) ==
    CASE level \in {"Error", "InternalCompilerError"} -> "::error"
      [] level = "Warning" -> "::warning"
      [] level \in {"Note", "Help", "FailureNote"} -> "::notice"

\* the value written after a key in a line, when the key is there
Param(line, key) ==
    IF \E j \in 1..Len(line) - 1 : line[j] = key
    THEN Some(line[(CHOOSE j \in 1..Len(line) - 1 : line[j] = key) + 1])
    ELSE None

Has(line, token) == \E j \in 1..Len(line) : line[j] = token

\* the positions of the run that hold a rendered diagnostic
RenderedDiagnostics ==
    { i \in 1..Len(results) :
        i <= Len(out) /\ results[i].ok /\ results[i].msg.kind = "CompilerMessage" }

DiagnosticAt(i) == results[i].msg.message
LineOf(i, k) == TokenLines(out[i])[k]

\* C17: severity mapping.  On GitHub the annotation of every diagnostic of
\* the tree, at every depth, is an error for Error and
\* InternalCompilerError, a warning for Warning, a notice for Note, Help and
\* FailureNote.
C17_SeverityMapping ==
    (pc = "render" /\ platform = "GitHub") =>
        \A i \in RenderedDiagnostics :
            LET nodes == PreOrder(DiagnosticAt(i)) IN
              /\ Len(TokenLines(out[i])) = Len(nodes)
              /\ \A k \in 1..Len(nodes) :
                    /\ LineOf(i, k)[1] = SeverityCommand(nodes[k].level)
                    /\ CommandsOf(LineOf(i, k)) = << LineOf(i, k)[1] >>

C17_Witness ==
    /\ pc = "render"
    /\ platform = "GitHub"
    /\ 1 \in RenderedDiagnostics
    /\ DiagnosticAt(1).level = "Error"
    /\ Len(DiagnosticAt(1).children) = 2
    /\ Len(DiagnosticAt(1).children[1].children) = 1
    /\ CommandsOf(out[1]) = << "::error", "::warning", "::notice", "::notice" >>

\* the first span of the list whose is_primary flag is set
FirstPrimary(spans) ==
    IF \E j \in 1..Len(spans) : spans[j].is_primary
    THEN Some(spans[CHOOSE j \in 1..Len(spans) :
                      /\ spans[j].is_primary
                      /\ \A h \in 1..(j - 1) : ~spans[h].is_primary])
    ELSE None

\* C18: primary-span selection.  On GitHub the annotation of a diagnostic
\* carries the file, start line and start column of the first span flagged
\* primary; with no primary span it carries no file, line or column and only
\* a title; the title of a Warning with a code holds the code.
C18_PrimarySpan ==
    (pc = "render" /\ platform = "GitHub") =>
        \A i \in RenderedDiagnostics :
            LET nodes == PreOrder(DiagnosticAt(i)) IN
            \A k \in 1..Len(nodes) :
                LET line == LineOf(i, k)
                    span == FirstPrimary(nodes[k].spans)
                IN  /\ span # None =>
                          /\ Param(line, "file=") = Some(span[1].file_name)
                          /\ Param(line, "line=") = Some(ToString(span[1].line_start))
                          /\ Param(line, "col=") = Some(ToString(span[1].column_start))
                    /\ span = None =>
                          /\ Param(line, "file=") = None
                          /\ Param(line, "line=") = None
                          /\ Param(line, "col=") = None
                          /\ line[3] = "title="
                    /\ Param(line, "title=") # None
                    /\ (nodes[k].level = "Warning" /\ nodes[k].code # None) =>
                          Has(line, nodes[k].code[1])

C18_Witness ==
    /\ pc = "render"
    /\ platform = "GitHub"
    /\ 1 \in RenderedDiagnostics
    /\ DiagnosticAt(1).level = "Warning"
    /\ DiagnosticAt(1).code = Some("E001")
    /\ DiagnosticAt(1).spans = << NotPrimary, PrimaryA, PrimaryB >>
    /\ SubSeq(LineOf(1, 1), 1, 11) =
         << "::warning", " ", "file=", "a.rs", ",", "line=", "3", ",",
            "col=", "5", "," >>
    /\ Has(LineOf(1, 1), "E001")

\* C19: children are rendered in pre-order.  On both platforms the
\* rendering of a diagnostic is the rendering of the diagnostic alone, then
\* the renderings of its children in order, recursively, nothing between;
\* on GitHub there are as many annotation commands as diagnostics.
C19_PreOrder ==
    pc = "render" =>
        \A i \in RenderedDiagnostics :
            LET d == DiagnosticAt(i)
                nodes == PreOrder(d)
            IN  /\ out[i] =
                     DiagnosticFormat(platform, Alone(d))
                       \o Flatten([c \in 1..Len(d.children) |->
                                     DiagnosticFormat(platform, d.children[c])])
                /\ out[i] =
                     Flatten([k \in 1..Len(nodes) |->
                                DiagnosticFormat(platform, Alone(nodes[k]))])
                /\ platform = "GitHub" =>
                     Len(CommandsOf(out[i])) = Len(nodes)

C19_Witness ==
    /\ pc = "render"
    /\ platform = "Plain"
    /\ 1 \in RenderedDiagnostics
    /\ DiagnosticAt(1).level = "Error"
    /\ DiagnosticAt(1).code = None
    /\ TokenLines(out[1]) =
         << << "error: ", "message", " (", "error", ")" >>,
            << "warning: ", "first child", " (", "warning", ")" >>,
            << "note", ": ", "first child" >>,
            << "note", ": ", "second child" >> >>

ErrorOrWarning(d) == d.level \in {"Error", "InternalCompilerError", "Warning"}

\* C20 as claimed: on Plain the line of an Error, InternalCompilerError or
\* Warning carries a suffix exactly when the diagnostic has a code; the line
\* of a Note, Help or FailureNote is "{level}: {message}".
C20_SuffixIffCode ==
    (pc = "render" /\ platform = "Plain") =>
        \A i \in RenderedDiagnostics :
            LET nodes == PreOrder(DiagnosticAt(i)) IN
            \A k \in 1..Len(nodes) :
                IF ErrorOrWarning(nodes[k])
                THEN Has(LineOf(i, k), " (") <=> nodes[k].code # None
                ELSE LineOf(i, k) =
                       << LevelDisplay(nodes[k].level), ": ", nodes[k].message >>

\* C20 amended: on Plain the line of an Error, InternalCompilerError or
\* Warning is "error: " or "warning: ", the message and a suffix in
\* brackets that is always there: the level alone when the diagnostic has no
\* code, the level and the code when it has one; the line of a Note, Help
\* or FailureNote is "{level}: {message}".
C20_PlainLine ==
    (pc = "render" /\ platform = "Plain") =>
        \A i \in RenderedDiagnostics :
            LET nodes == PreOrder(DiagnosticAt(i)) IN
            \A k \in 1..Len(nodes) :
                LET n == nodes[k]
                    prefix == IF n.level = "Warning" THEN "warning: " ELSE "error: "
                IN  LineOf(i, k) =
                      IF ~ErrorOrWarning(n)
                      THEN << LevelDisplay(n.level), ": ", n.message >>
                      ELSE IF n.code = None
                      THEN << prefix, n.message, " (", LevelDisplay(n.level), ")" >>
                      ELSE << prefix, n.message, " (", LevelDisplay(n.level),
                              ": ", n.code[1], ")" >>

C20_Witness ==
    /\ pc = "render"
    /\ platform = "Plain"
    /\ 1 \in RenderedDiagnostics
    /\ DiagnosticAt(1).level = "InternalCompilerError"
    /\ DiagnosticAt(1).code = None
    /\ DiagnosticAt(1).children = << >>
    /\ out[1] = << "error: ", "message", " (", "error: internal compiler error",
                   ")", "\n" >>

----------------------------------------------------------------------------
(* Claims about the groups of a test run *)

\* the messages rendered so far and the tokens written for them
RenderedMessages == [i \in 1..Len(results) |-> results[i].msg]
Written == Flatten(out)

IsTest(m, event, name) == m.kind = "Test" /\ m.event = event /\ m.name = name

Positions(msgs, event, name) ==
    { i \in 1..Len(msgs) : IsTest(msgs[i], event, name) }

\* the run of a test harness: a test starts once, ends at most once, and
\* ends after it has started
HarnessRun(msgs) ==
    \A n \in TestNames :
        LET started == Positions(msgs, "Started", n)
            ended == Positions(msgs, "Ok", n) \cup Positions(msgs, "Failed", n)
                       \cup Positions(msgs, "Timeout", n)
        IN  /\ Cardinality(started) <= 1
            /\ Cardinality(ended) <= 1
            /\ \A e \in ended : \E b \in started : b < e

\* the groups open after the first j tokens
OpenGroups(tokens, j) ==
    Cardinality({ h \in 1..j : tokens[h] = "::group" })
      - Cardinality({ h \in 1..j : tokens[h] = "::endgroup" })

\* C16: test groups never straddle tests.  On GitHub, whatever the order in
\* which the tests of a run start and end, at most one test group is open
\* at any point of the output, and none is closed that was not opened.
C16_OneGroupOpen ==
    ( /\ pc = "render"
      /\ platform = "GitHub"
      /\ toolName = "cargo-libtest"
      /\ HarnessRun(RenderedMessages) )
    => \A j \in 0..Len(Written) : OpenGroups(Written, j) \in {0, 1}

----------------------------------------------------------------------------
(* Claims about the workflow commands *)

\* the annotations built in the run
Annotations ==
    { i \in 1..Len(results) :
        /\ i <= Len(out)
        /\ results[i].msg.kind = "Command"
        /\ results[i].msg.command \in {"notice", "warning", "error"} }

\* where the parameters of an annotation end: the first "::" after its name
ParamsEnd(string) == CHOOSE j \in 2..Len(string) :
                        /\ string[j] = "::"
                        /\ \A h \in 2..(j - 1) : string[h] # "::"

\* the parameter text of an annotation: what stands between the space after
\* the name and the "::" before the text
ParamText(string) == SubSeq(string, 3, ParamsEnd(string) - 1)

\* the fields that are present, each as key=value, in the fixed order
PresentFields(p) ==
    SelectSeq(<< IF p.file = None THEN << >> ELSE << "file=", p.file[1] >>,
                 IF p.line = None THEN << >> ELSE << "line=", ToString(p.line[1]) >>,
                 IF p.col = None THEN << >> ELSE << "col=", ToString(p.col[1]) >>,
                 IF p.end_line = None THEN << >>
                 ELSE << "endLine=", ToString(p.end_line[1]) >>,
                 IF p.end_column = None THEN << >>
                 ELSE << "endColumn=", ToString(p.end_column[1]) >>,
                 IF p.title = None THEN << >> ELSE << "title=" >> \o p.title[1] >>,
              LAMBDA f : f # << >>)

\* the fields joined by single commas
CommaJoined(fields) ==
    Flatten([k \in 1..Len(fields) |->
               IF k = 1 THEN fields[k] ELSE << "," >> \o fields[k]])

\* C21: annotation parameters.  For every subset of the six fields the
\* parameter text is the present fields as key=value in the order file,
\* line, col, endLine, endColumn, title, joined by single commas, with no
\* comma before the first and none after the last.
C21_AnnotationParams ==
    pc = "github" =>
        \A i \in Annotations :
            LET text == ParamText(out[i])
                fields == PresentFields(results[i].msg.params)
            IN  /\ text = CommaJoined(fields)
                /\ text # << >> => (text[1] # "," /\ text[Len(text)] # ",")
                /\ Len(SelectSeq(text, LAMBDA t : t = ",")) =
                     (IF fields = << >> THEN 0 ELSE Len(fields) - 1)

C21_Witness ==
    /\ pc = "github"
    /\ 1 \in Annotations
    /\ results[1].msg.command = "warning"
    /\ results[1].msg.params.file = None
    /\ results[1].msg.params.end_line = None
    /\ ParamText(out[1]) =
         << "line=", "42", ",", "col=", "10", ",", "endColumn=", "20", ",",
            "title=", "Test Title" >>

\* the commands built in the run
Commands ==
    { i \in 1..Len(results) :
        i <= Len(out) /\ results[i].msg.kind = "Command" }

\* a space stands after the command name
SpaceAfterName(string) == Len(string) >= 2 /\ string[2] = " "

SomeParam(p) == p # NoParams

\* the string ends with one newline and no more
OneNewlineAtEnd(string) ==
    /\ Len(string) >= 1
    /\ string[Len(string)] = "\n"
    /\ Len(string) >= 2 => string[Len(string) - 1] # "\n"

\* C22 as stated: every command string ends with exactly one newline and
\* has the space after the command name exactly when at least one parameter
\* is present, so that an annotation without parameters is ::<command>::<text>.
C22_SpaceIffParams ==
    pc = "github" =>
        \A i \in Commands :
            /\ SpaceAfterName(out[i]) <=> SomeParam(results[i].msg.params)
            /\ OneNewlineAtEnd(out[i])

\* C22: the form of a command string.  notice, warning and error are
\* ::<command>, a space, the parameter text (empty without parameters),
\* "::", the text and the newline the builder adds: the space is always
\* there.  The commands without parameters have no space, and every string
\* ends with the added newline after the text as given.
C22_CommandForm ==
    pc = "github" =>
        \A i \in Commands :
            LET call == results[i].msg
                string == out[i]
                n == Len(string)
            IN  /\ n >= 2
                /\ string[n] = "\n"
                /\ IF i \in Annotations
                   THEN /\ string[1] = (CASE call.command = "notice" -> "::notice"
                                          [] call.command = "warning" -> "::warning"
                                          [] OTHER -> "::error")
                        /\ SpaceAfterName(string)
                        /\ SubSeq(string, ParamsEnd(string) + 1, n - 1) = call.text
                        /\ \A h \in 3..n : string[h] # " "
                   ELSE /\ \A h \in 1..n : string[h] # " "
                        /\ call.command # "resume-commands" =>
                              /\ string[2] = "::"
                              /\ SubSeq(string, 3, n - 1) = call.text
                        /\ call.command = "resume-commands" =>
                              string = << "::" >> \o call.text \o << "::", "\n" >>
                /\ OneNewlineAtEnd(string) <=>
                     \/ call.command = "resume-commands"
                     \/ call.text = << >>
                     \/ call.text[Len(call.text)] # "\n"

C22_Witness ==
    /\ pc = "github"
    /\ 1 \in Annotations
    /\ results[1].msg.command = "notice"
    /\ results[1].msg.params = NoParams
    /\ out[1] = << "::notice", " ", "::", "text", "\n" >>

----------------------------------------------------------------------------
(* Claims about times and counts *)

\* the messages that carry an exec_time: suite Ok and Failed, test Ok and Failed
Timed(m) ==
    /\ m.kind \in {"Suite", "Test"}
    /\ m.event \in {"Ok", "Failed"}

\* the digits
Digits == { "0", "1", "2", "3", "4", "5", "6", "7", "8", "9" }

\* the places in a rendering where a time is written: a point between digits
TimePlaces(string) ==
    { j \in 1..Len(string) : string[j] = "." }

\* a time is written at j: its two decimals and then the unit
TwoDecimalsAndUnit(string, j) ==
    /\ j + 3 <= Len(string)
    /\ string[j + 1] \in Digits
    /\ string[j + 2] \in Digits
    /\ string[j + 3] \in {"s", "s)"}

\* the seconds and hundredths of a time of ms milliseconds, rounded
Seconds(ms) == ((ms + 5) \div 10) \div 100
Hundredths(ms) == ((ms + 5) \div 10) % 100

\* the words that introduce a time
TimeWords == { " in ", " (executed in ", "Executed in " }

\* the counts of a Plain suite line, in the order they are written
CountsWritten(string) ==
    << string[2], string[3], string[4], string[5], string[6],
       string[7], string[8], string[9], string[10], string[11] >>

\* C23: execution time is rendered only when present.  On both platforms a
\* suite or test message without exec_time renders with no time text at
\* all, and one with exec_time renders it once, with two decimal places
\* followed by s; the Plain line of suite Ok lists the counts in the order
\* passed, failed, ignored, measured, filtered out.
C23_TimeWhenPresent ==
    pc = "render" =>
        \A i \in 1..Len(results) :
            LET m == results[i].msg
                string == out[i]
            IN  /\ (Timed(m) /\ m.exec_time = None) =>
                      /\ TimePlaces(string) = {}
                      /\ \A j \in 1..Len(string) : string[j] \notin TimeWords
                /\ (Timed(m) /\ m.exec_time # None) =>
                      /\ Cardinality(TimePlaces(string)) = 1
                      /\ \A j \in TimePlaces(string) :
                            /\ TwoDecimalsAndUnit(string, j)
                            /\ j > 2
                            /\ string[j - 2] \in TimeWords
                            /\ string[j - 1] = ToString(Seconds(m.exec_time[1]))
                            /\ string[j + 1] =
                                 ToString(Hundredths(m.exec_time[1]) \div 10)
                            /\ string[j + 2] =
                                 ToString(Hundredths(m.exec_time[1]) % 10)
                /\ (m.kind = "Suite" /\ m.event = "Ok" /\ platform = "Plain") =>
                      CountsWritten(string) =
                        << ToString(m.passed), " passed, ",
                           ToString(m.failed), " failed, ",
                           ToString(m.ignored), " ignored, ",
                           ToString(m.measured), " measured, ",
                           ToString(m.filtered_out), " filtered out" >>

C23_Witness ==
    /\ pc = "render"
    /\ platform = "Plain"
    /\ Len(results) = 3
    /\ results[1].msg = SuiteOk(40, 1, 2, 3, 5, Some(1234))
    /\ out[1] = << "SUITE: Test Suite Passed - ", "40", " passed, ", "1",
                   " failed, ", "2", " ignored, ", "3", " measured, ", "5",
                   " filtered out", " in ", "1", ".", "2", "3", "s" >>
    /\ results[2].msg = TestOk("a", None, None)
    /\ out[2] = << "TEST OK: ", "a" >>
    /\ results[3].msg.event = "Failed"
    /\ results[3].msg.exec_time = Some(1234)

----------------------------------------------------------------------------
(* Claims about the wire records *)

\* the Option fields of a message
OptionFields(m) ==
    CASE m.kind = "Suite" /\ m.event = "Started" -> {"shuffle_seed"}
      [] m.kind = "Suite" /\ m.event \in {"Ok", "Failed"} -> {"exec_time"}
      [] m.kind = "Test" /\ m.event = "Discovered" -> {"ignore_message"}
      [] m.kind = "Test" /\ m.event = "Ok" -> {"exec_time", "stdout"}
      [] m.kind = "Test" /\ m.event = "Failed" -> {"exec_time", "stdout", "message"}
      [] m.kind = "Test" /\ m.event = "Ignored" -> {"message"}
      [] m.kind = "Bench" -> {"mib_per_second"}
      [] m.kind = "Diagnostic" -> {"code", "rendered"}
      [] OTHER -> {}

\* the deserializer of the tool
Deserialized(object) ==
    LET message == IF toolName = "cargo-check"
                   THEN CargoMessageDeserialize(object)
                   ELSE LibTestMessageDeserialize(object)
    IN  IF message = None THEN Err(object) ELSE Ok(message[1])

\* the message an edit was applied in: the record's own, or the rustc message
\* in it
EditedIn(c, r) == IF c.inner THEN r.msg.message ELSE r.msg

\* C26: forward compatibility.  A record with unknown additional fields
\* deserializes to the same message as the record without them; a record
\* whose discriminant is absent or unrecognized, or that lacks a required
\* field, does not deserialize.
C26_ForwardCompatible ==
    pc = "wire" =>
        \A i \in 1..Len(results) :
            LET c == consumed[i]
                whole == Deserialized(c.record)
            IN  /\ c.edit.op = "unknown" =>
                     /\ fed[i] # c.record
                     /\ results[i].ok = whole.ok
                     /\ results[i].msg = whole.msg
                /\ c.edit.op = "unrecognized" => ~results[i].ok
                /\ (c.edit.op = "absent" /\ whole.ok) =>
                     IF c.edit.key \in OptionFields(EditedIn(c, whole))
                     THEN /\ results[i].ok
                          /\ EditedIn(c, results[i])[c.edit.key] = None
                     ELSE ~results[i].ok

C26_Witness ==
    /\ pc = "wire"
    /\ Len(results) = 1
    /\ consumed[1].edit.op = "unknown"
    /\ DOMAIN consumed[1].edit.fields = {"unknown_field", "zzz", "success_rate"}
    /\ results[1].ok
    /\ results[1].msg.kind = "Test"
    /\ results[1].msg.event = "Failed"
    /\ results[1].msg.message = Some(<< "panicked" >>)
    /\ "zzz" \in DOMAIN fed[1]
    /\ "zzz" \notin DOMAIN results[1].msg

\* the name of a variant on the wire: snake_case for the events of the test
\* harness and the messages of rustc, kebab-case for the messages of cargo
SnakeCase(name) ==
    CASE name = "Suite" -> "suite" [] name = "Test" -> "test"
      [] name = "Bench" -> "bench" [] name = "Report" -> "report"
      [] name = "Discovery" -> "discovery" [] name = "Completed" -> "completed"
      [] name = "Started" -> "started" [] name = "Ok" -> "ok"
      [] name = "Failed" -> "failed" [] name = "Discovered" -> "discovered"
      [] name = "Timeout" -> "timeout" [] name = "Ignored" -> "ignored"
      [] name = "Diagnostic" -> "diagnostic" [] name = "Artifact" -> "artifact"
      [] name = "FutureIncompat" -> "future_incompat"
      [] name = "UnusedExterns" -> "unused_externs"
      [] name = "SectionTiming" -> "section_timing"

KebabCase(name) ==
    CASE name = "CompilerMessage" -> "compiler-message"
      [] name = "BuildScriptExecuted" -> "build-script-executed"
      [] name = "BuildFinished" -> "build-finished"

\* the fields of a message on the wire: an Option that is None is left out,
\* or written as null when nulls is set
FieldsEncoded(m, tags, nulls) ==
    LET written == { k \in DOMAIN m \ tags :
                       nulls \/ k \notin OptionFields(m) \/ m[k] # None }
    IN  [k \in written |-> IF k \in OptionFields(m) THEN m[k] ELSE << m[k] >>]

\* the wire encoding of a rustc message
RustcEncoded(m, nulls) ==
    LET fields == FieldsEncoded(m, {"kind"}, nulls)
    IN  ("$message_type" :> << SnakeCase(m.kind) >>)
          @@ (IF m.kind = "Diagnostic"
              THEN [fields EXCEPT !.level = << LevelDisplay(m.level) >>]
              ELSE fields)

\* the wire encoding of a message of the tool
Encoded(m, nulls) ==
    IF toolName = "cargo-check"
    THEN LET fields == FieldsEncoded(m, {"kind"}, nulls)
         IN  [reason |-> << KebabCase(m.kind) >>]
               @@ (IF m.kind = "CompilerMessage"
                   THEN [fields EXCEPT !.message = << RustcEncoded(m.message, nulls) >>]
                   ELSE fields)
    ELSE IF m.kind \in {"Suite", "Test"}
         THEN [type |-> << SnakeCase(m.kind) >>, event |-> << SnakeCase(m.event) >>]
                @@ FieldsEncoded(m, {"kind", "event"}, nulls)
         ELSE [type |-> << SnakeCase(m.kind) >>] @@ FieldsEncoded(m, {"kind"}, nulls)

\* a record without the keys whose value is null
WithoutNulls(object) ==
    LET kept == [k \in { h \in DOMAIN object : object[h] # << >> } |-> object[k]]
    IN  IF "message" \in DOMAIN kept /\ "reason" \in DOMAIN kept
             /\ kept.reason = << "compiler-message" >>
        THEN [kept EXCEPT !.message =
                << [k \in { h \in DOMAIN kept.message[1] :
                              kept.message[1][h] # << >> } |-> kept.message[1][k]] >>]
        ELSE kept

LevelsRead ==
    { i \in 1..Len(results) :
        /\ toolName = "cargo-check"
        /\ consumed[i].edit.op = "none"
        /\ consumed[i].record.reason = << "compiler-message" >>
        /\ consumed[i].record.message[1]["$message_type"] = << "diagnostic" >> }

LevelWritten(i) == fed[i].message[1].level[1]

SixStrings ==
    { "error", "warning", "note", "help", "failure-note",
      "error: internal compiler error" }

\* C24: severity levels map one to one onto their wire strings.  Each of
\* the six levels deserializes from exactly one string, one of error,
\* warning, note, help, failure-note and 'error: internal compiler error';
\* its Display text is that string; no two levels share a string; any other
\* string is not a level.
C24_LevelStrings ==
    pc = "wire" =>
        /\ \A i \in LevelsRead :
              /\ results[i].ok <=> LevelWritten(i) \in SixStrings
              /\ results[i].ok =>
                    /\ results[i].msg.message.level \in DiagnosticLevels
                    /\ LevelDisplay(results[i].msg.message.level) = LevelWritten(i)
        /\ \A i, j \in LevelsRead :
              (results[i].ok /\ results[j].ok) =>
                 (results[i].msg.message.level = results[j].msg.message.level
                    <=> LevelWritten(i) = LevelWritten(j))
        /\ \A l \in DiagnosticLevels :
              /\ LevelDisplay(l) \in SixStrings
              /\ Cardinality({ string \in LevelStrings :
                                 DiagnosticLevelDeserialize(string) = Some(l) }) = 1
        /\ Cardinality({ LevelDisplay(l) : l \in DiagnosticLevels }) = 6

C24_Witness ==
    /\ pc = "wire"
    /\ LevelsRead = {1}
    /\ LevelWritten(1) = "error: internal compiler error"
    /\ results[1].ok
    /\ results[1].msg.message.level = "InternalCompilerError"

----------------------------------------------------------------------------
(* Claims about rendering as a function *)

----------------------------------------------------------------------------
(* Claims about the groups and the annotations of a run *)

SuitePositions(msgs, event) ==
    { i \in 1..Len(msgs) : msgs[i].kind = "Suite" /\ msgs[i].event = event }

\* the final events of a test
FinalPositions(msgs, name) ==
    Positions(msgs, "Ok", name) \cup Positions(msgs, "Failed", name)
      \cup Positions(msgs, "Ignored", name)

\* a run in which Discovery precedes Completed and each test emits Started
\* followed by its later events: optionally Timeout, then one final event
WellFormedRun(msgs) ==
    /\ Cardinality(SuitePositions(msgs, "Discovery")) <= 1
    /\ Cardinality(SuitePositions(msgs, "Completed")) <= 1
    /\ \A c \in SuitePositions(msgs, "Completed") :
          \E d \in SuitePositions(msgs, "Discovery") : d < c
    /\ \A n \in TestNames :
          LET started == Positions(msgs, "Started", n)
              timeout == Positions(msgs, "Timeout", n)
              final == FinalPositions(msgs, n)
          IN  /\ Cardinality(started) <= 1
              /\ Cardinality(timeout) <= 1
              /\ Cardinality(final) <= 1
              /\ \A t \in timeout : \E b \in started : b < t
              /\ \A f \in final :
                    /\ \E b \in started : b < f
                    /\ \A t \in timeout : t < f

\* every started test has reached its final event, and a discovery that was
\* begun is completed
RunFinished(msgs) ==
    /\ \A n \in TestNames :
          Positions(msgs, "Started", n) # {} => FinalPositions(msgs, n) # {}
    /\ SuitePositions(msgs, "Discovery") # {} =>
          SuitePositions(msgs, "Completed") # {}

\* C28: the group commands of a libtest run are balanced.  On GitHub, for
\* every well-formed run, no prefix of the output holds more endgroup
\* commands than group commands, and when every started test has reached
\* its final event the numbers of group and endgroup commands are equal.
C28_GroupsBalanced ==
    ( /\ pc = "render"
      /\ platform = "GitHub"
      /\ toolName = "cargo-libtest"
      /\ WellFormedRun(RenderedMessages) )
    => /\ \A j \in 0..Len(Written) : OpenGroups(Written, j) >= 0
       /\ RunFinished(RenderedMessages) =>
             OpenGroups(Written, Len(Written)) = 0

\* the outcomes that are failures, and those that are successes
FailureOutcome(m) ==
    \/ m.kind = "BuildFinished" /\ ~m.success
    \/ m.kind = "Suite" /\ m.event = "Failed"
    \/ m.kind = "Test" /\ m.event \in {"Timeout", "Failed"}

SuccessOutcome(m) ==
    \/ m.kind = "BuildFinished" /\ m.success
    \/ m.kind = "Suite" /\ m.event = "Ok"
    \/ m.kind = "Test" /\ m.event = "Ok"

\* the annotation commands in a rendering
AnnotationsIn(string) ==
    { string[j] : j \in 1..Len(string) } \cap {"::error", "::warning", "::notice"}

\* C30: failures are errors.  On GitHub every failure outcome (BuildFinished
\* with success false, suite Failed, test Timeout, test Failed) produces an
\* ::error command, and every success outcome (BuildFinished with success
\* true, suite Ok, test Ok) a ::notice command.
C30_FailuresAreErrors ==
    (pc = "render" /\ platform = "GitHub") =>
        \A i \in 1..Len(results) :
            /\ FailureOutcome(results[i].msg) => AnnotationsIn(out[i]) = {"::error"}
            /\ SuccessOutcome(results[i].msg) => AnnotationsIn(out[i]) = {"::notice"}

----------------------------------------------------------------------------
(* Claims about the counters of detection *)

\* C29: the decision of CargoCheck::detect does not depend on the width of
\* its counters.  Also for samples with more than 255 parsing lines or more
\* than 255 failing lines, a tool is returned exactly when the true number
\* of parsing lines is strictly greater than the true number of failing
\* lines.
C29_WidthIndependent ==
    pc = "fold" =>
        (results.oks > results.errs <=> consumed.parsing > consumed.failing)

====
